---- MODULE Spec2Model ----
(***************************************************************************)
(* Model of the Telegram conversation handler of eto-mcp (telegramBot.ts   *)
(* and the orchestrator, listed as src/unnamed/part_008) together with the *)
(* rule-based extractors of nlu/parseQuery.ts (src/unnamed/part_001) and   *)
(* the intent parser (src/unnamed/part_000), and of the favorites store    *)
(* (src/unnamed/part_012).                                                 *)
(*                                                                         *)
(* Left out: the filter menu and searchContext.  The backend answers a     *)
(* search with a result or an error; the hotel of a result is identified   *)
(* by the country searched and the request id by the call.  A lead is the  *)
(* record saveLead appends to data/leads.jsonl.                            *)
(*                                                                         *)
(* One conversation (one ChatState) is modelled.  A handler runs           *)
(* atomically up to its backend call (callSearchTours); the call stays in  *)
(* flight while other updates of the same chat are handled, and the rest   *)
(* of the handler runs when the call returns or throws.  Replies           *)
(* (ctx.reply) are recorded as tags in `out`.                              *)
(*                                                                         *)
(* A text message is a sequence of tokens (words and digit groups) and the *)
(* extractors are computed on the tokens the way the regular expressions   *)
(* of the source match them.                                               *)
(***************************************************************************)
EXTENDS Integers, Sequences, FiniteSets, TLC

\* JavaScript `undefined` for numeric fields, and for string fields.
Undef == 0 - 1
NoStr == ""

(***************************************************************************)
(* Bounds of the model.                                                    *)
(***************************************************************************)
\* backend calls started in one conversation
MaxCalls == 2
\* updates (messages and button presses) handled in one conversation
MaxUpdates == 4
\* ... and in a conversation that leaves a phone number
MaxLeadUpdates == 5
\* clock ticks
MaxTime == 2
\* the length of a clock tick in milliseconds
TickMs == 30000

(***************************************************************************)
(* Program constants.                                                      *)
(***************************************************************************)
Turkey == 47
Egypt == 54
DefaultNightsMin == 6
DefaultNightsMax == 10
DefaultLimit == 5
DefaultOffset == 0
DefaultBudgetMax == 0
MinBudgetAnswer == 10000
MaxNights == 30
SchemaLimit == 10
WantWindowMs == 45000
FavoritesListId == 0
WantTimerMs == 60000

COUNTRY_TO_ID(name) ==
  CASE name = "Turkey" -> Turkey
    [] name = "Egypt" -> Egypt
    [] OTHER -> Undef

SupportedIds == {Turkey, Egypt}

CountryNameOfId(id) ==
  CASE id = Turkey -> "Turkey"
    [] id = Egypt -> "Egypt"
    [] OTHER -> NoStr

(***************************************************************************)
(* Text messages as token sequences.                                       *)
(*   country v   a supported country word ("турция" 47, "египет" 54)        *)
(*   unsup       an unsupported destination word ("вьетнам")                *)
(*   num v       a group of digits                                         *)
(*   k           the thousand suffix "к" glued to the preceding digits      *)
(*   nw          "ночей"                                                    *)
(*   do          "до"          okolo  "около"        za  "за"               *)
(*   q           "?" glued to the preceding token                           *)
(*   month v     a named month ("в мае" 5)                                  *)
(*   mealAI      "всё включено"   mealHB  "полупансион"                     *)
(*   cancel      "отмена"   thanks "спасибо"   ok "ок"   hello "привет"     *)
(*   yes         "да"       help "помощь"      other "не знаю"              *)
(*   travel      "хочу тур" weekend "на выходные"   pricier "дороже"        *)
(*   more/new/favs  the typed commands "показать ещё", "новый поиск",       *)
(*                  "избранное"; clearfavs "очистить избранное"            *)
(*   phone v     a phone number "+7XXXXXXXXXX"; v is its leading seven      *)
(*               digits, the digits a \d{5,7} pattern finds in it           *)
(***************************************************************************)
Tok(ty, val) == [t |-> ty, v |-> val]
W(ty) == <<Tok(ty, 0)>>
Num(n) == <<Tok("num", n)>>
NumK(n) == <<Tok("num", n), Tok("k", 0)>>
Nights(n) == <<Tok("num", n), Tok("nw", 0)>>
Country(id) == <<Tok("country", id)>>
Month(m) == <<Tok("month", m)>>
Phone(n) == <<Tok("phone", n)>>

Has(text, ty) == \E i \in 1..Len(text) : text[i].t = ty
IsExactly(text, ty) == Len(text) = 1 /\ text[1].t = ty

RECURSIVE DigitsLen(_)
DigitsLen(n) == IF n < 10 THEN 1 ELSE 1 + DigitsLen(n \div 10)

RECURSIVE Pow10(_)
Pow10(e) == IF e = 0 THEN 1 ELSE 10 * Pow10(e - 1)

\* index of the first token satisfying P, 0 when none
FirstIndex(text, P(_)) ==
  IF \E i \in 1..Len(text) : P(i)
  THEN CHOOSE i \in 1..Len(text) : P(i) /\ \A j \in 1..(i - 1) : ~P(j)
  ELSE 0

\* a value computed once and bound to a name in F
With(v, F(_)) == F(v)

FollowedBy(text, i, ty) == i < Len(text) /\ text[i + 1].t = ty

(***************************************************************************)
(* nlu/parseQuery.ts: the lexical extractors.                              *)
(***************************************************************************)
MonthDateFrom(m) ==
  CASE m = 1 -> "2026-01-01" [] m = 2 -> "2026-02-01" [] m = 3 -> "2026-03-01"
    [] m = 4 -> "2026-04-01" [] m = 5 -> "2026-05-01" [] m = 6 -> "2026-06-01"
    [] m = 7 -> "2026-07-01" [] m = 8 -> "2026-08-01" [] m = 9 -> "2026-09-01"
    [] m = 10 -> "2026-10-01" [] m = 11 -> "2026-11-01" [] m = 12 -> "2026-12-01"
    [] OTHER -> NoStr

MonthDateTo(m) ==
  CASE m = 1 -> "2026-01-31" [] m = 2 -> "2026-02-28" [] m = 3 -> "2026-03-31"
    [] m = 4 -> "2026-04-30" [] m = 5 -> "2026-05-31" [] m = 6 -> "2026-06-30"
    [] m = 7 -> "2026-07-31" [] m = 8 -> "2026-08-31" [] m = 9 -> "2026-09-30"
    [] m = 10 -> "2026-10-31" [] m = 11 -> "2026-11-30" [] m = 12 -> "2026-12-31"
    [] OTHER -> NoStr

\* parseMonthRu: a named month wins; otherwise a free-standing number 1..12
\* followed by white space or the end of the text is read as a month.
parseMonthRu(text) ==
  LET named == FirstIndex(text, LAMBDA i : text[i].t = "month")
      numeric == FirstIndex(text, LAMBDA i :
                   /\ text[i].t = "num"
                   /\ text[i].v >= 1 /\ text[i].v <= 12
                   /\ ~FollowedBy(text, i, "k")
                   /\ ~FollowedBy(text, i, "q"))
  IN IF named # 0 THEN text[named].v
     ELSE IF numeric # 0 THEN text[numeric].v
     ELSE Undef

\* extractCountry: the supported aliases are tried first, in table order.
extractCountry(text) ==
  IF \E i \in 1..Len(text) : text[i].t = "country" /\ text[i].v = Turkey
    THEN [country |-> "Turkey", unknownCountry |-> NoStr]
  ELSE IF \E i \in 1..Len(text) : text[i].t = "country" /\ text[i].v = Egypt
    THEN [country |-> "Egypt", unknownCountry |-> NoStr]
  ELSE IF Has(text, "unsup")
    THEN [country |-> NoStr, unknownCountry |-> "Vietnam"]
  ELSE [country |-> NoStr, unknownCountry |-> NoStr]

\* extractNights: idioms, then "<1-2 digits> ноч..." accepted in 1..30 only.
extractNights(text) ==
  LET direct == FirstIndex(text, LAMBDA i :
                  text[i].t = "num" /\ FollowedBy(text, i, "nw"))
      value == IF direct # 0 THEN text[direct].v % 100 ELSE 0
  IN IF Has(text, "weekend") THEN 3
     ELSE IF direct # 0 /\ value >= 1 /\ value <= MaxNights THEN value
     ELSE Undef

\* parseMoneyToken: the digits, times 1000 when a thousand suffix is present;
\* undefined unless positive.
parseMoneyToken(text, i) ==
  LET num == text[i].v
      value == IF FollowedBy(text, i, "k") THEN num * 1000 ELSE num
  IN IF num <= 0 THEN Undef ELSE value

\* round100(value * pct / 10): Math.round(n / 100) * 100 for n = value*pct/10
round100(value, pct) == ((2 * value * pct + 1000) \div 2000) * 100

NoBudget == [type |-> "none", value |-> Undef, min |-> Undef, max |-> Undef]

\* a budget that takes the tenth off both ends
ApproxBudgetBelow(value) ==
  [type |-> "approx", value |-> value,
   min |-> round100(value, 9), max |-> round100(value, 9)]

ApproxBudget(value) ==
  LET lo == round100(value, 9)
      hi == round100(value, 11)
  IN [type |-> "approx", value |-> value,
      min |-> IF lo < hi THEN lo ELSE hi,
      max |-> IF lo < hi THEN hi ELSE lo]

\* extractBudget, in priority order: "до X" (max), "около X" (approx), a bare
\* number of 2-3 or 5-7 digits with an optional suffix (approx by default).
\* (The "от X до Y" / "X-Y" range forms are not in the token alphabet.)
extractBudget(text) ==
  LET maxAt == FirstIndex(text, LAMBDA i :
                 text[i].t = "do" /\ FollowedBy(text, i, "num"))
      approxAt == FirstIndex(text, LAMBDA i :
                    text[i].t = "okolo" /\ FollowedBy(text, i, "num"))
      bareAt == FirstIndex(text, LAMBDA i :
                  /\ text[i].t = "num"
                  /\ DigitsLen(text[i].v) \in {2, 3, 5, 6, 7})
  IN IF maxAt # 0 /\ parseMoneyToken(text, maxAt + 1) # Undef
       THEN [type |-> "max", value |-> Undef, min |-> Undef,
             max |-> parseMoneyToken(text, maxAt + 1)]
     ELSE IF approxAt # 0 /\ parseMoneyToken(text, approxAt + 1) # Undef
       THEN ApproxBudget(parseMoneyToken(text, approxAt + 1))
     ELSE IF bareAt # 0 /\ parseMoneyToken(text, bareAt) # Undef
       THEN ApproxBudget(parseMoneyToken(text, bareAt))
     ELSE NoBudget

extractMeal(text) ==
  IF Has(text, "mealAI") THEN "AI"
  ELSE IF Has(text, "mealHB") THEN "HB"
  ELSE NoStr

\* detectCommand: the whole text is the command phrase.
detectCommand(text) ==
  IF IsExactly(text, "more") THEN "SHOW_MORE"
  ELSE IF IsExactly(text, "favs") THEN "FAVORITES"
  ELSE IF IsExactly(text, "clearfavs") THEN "CLEAR_FAVORITES"
  ELSE IF IsExactly(text, "new") THEN "NEW_SEARCH"
  ELSE NoStr

detectSmalltalk(text) ==
  IsExactly(text, "thanks") \/ IsExactly(text, "ok") \/ IsExactly(text, "hello")

parseQuery(text) ==
  With(parseMonthRu(text), LAMBDA month :
    With(extractCountry(text), LAMBDA found :
      [command |-> detectCommand(text),
       country |-> found.country,
       unknownCountry |-> found.unknownCountry,
       nights |-> extractNights(text),
       budget |-> extractBudget(text),
       meal |-> extractMeal(text),
       month |-> month,
       dateFrom |-> MonthDateFrom(month),
       dateTo |-> MonthDateTo(month),
       smalltalk |-> detectSmalltalk(text)]))

(***************************************************************************)
(* Search specifications (SearchToursInput) and partial ones (drafts,      *)
(* patches).  A field that is absent holds Undef or NoStr; `def` is FALSE  *)
(* for the JavaScript value undefined and TRUE for an object, even {}.     *)
(* meal "0" and rating 0 are the numeric defaults of the schema.           *)
(* departure_id, adults and children never leave their defaults and are    *)
(* not carried.                                                            *)
(***************************************************************************)
NoArgs ==
  [def |-> FALSE, country_id |-> Undef, country_name |-> NoStr,
   date_from |-> NoStr, date_to |-> NoStr,
   nights_min |-> Undef, nights_max |-> Undef,
   budget_min |-> Undef, budget_max |-> Undef,
   meal |-> NoStr, rating |-> Undef, period |-> NoStr,
   limit |-> Undef, offset |-> Undef, sort |-> NoStr]

EmptyArgs == [NoArgs EXCEPT !.def = TRUE]

DEFAULT_SEARCH_TOURS_ARGS ==
  [EmptyArgs EXCEPT !.date_from = "2026-06-01", !.date_to = "2026-06-20",
                    !.nights_min = DefaultNightsMin,
                    !.nights_max = DefaultNightsMax,
                    !.budget_max = DefaultBudgetMax,
                    !.meal = "0", !.rating = 0,
                    !.limit = DefaultLimit, !.offset = DefaultOffset,
                    !.sort = "price_asc"]

NumFields == {"country_id", "nights_min", "nights_max", "budget_min",
              "budget_max", "rating", "limit", "offset"}

StrFields == {"country_name", "date_from", "date_to", "meal", "period", "sort"}

Present(a, f) == IF f \in NumFields THEN a[f] # Undef ELSE a[f] # NoStr

\* { ...base, ...over }: the fields present in `over` replace those of `base`.
\* clearMin stands for a budget_min key that is present with value undefined.
Spread(base, over, clearMin) ==
  [f \in DOMAIN NoArgs |->
     IF f = "def" THEN TRUE
     ELSE IF Present(over, f) THEN over[f]
     ELSE IF f = "budget_min" /\ clearMin THEN Undef
     ELSE base[f]]

\* searchToursInputSchema.parse: the optional fields with a default get it.
searchToursInputSchema(a) ==
  [a EXCEPT !.def = TRUE,
            !.budget_max = IF a.budget_max = Undef THEN 0 ELSE a.budget_max,
            !.meal = IF a.meal = NoStr THEN "0" ELSE a.meal,
            !.rating = IF a.rating = Undef THEN 0 ELSE a.rating,
            !.limit = IF a.limit = Undef THEN SchemaLimit ELSE a.limit,
            !.offset = IF a.offset = Undef THEN 0 ELSE a.offset,
            !.sort = IF a.sort = NoStr THEN "price_asc" ELSE a.sort]

(***************************************************************************)
(* Text helpers of telegramBot.ts and orchestrator.ts.                     *)
(***************************************************************************)
normalizeCountryName(text) ==
  IF \E i \in 1..Len(text) : text[i].t = "country" /\ text[i].v = Turkey
    THEN "Turkey"
  ELSE IF \E i \in 1..Len(text) : text[i].t = "country" /\ text[i].v = Egypt
    THEN "Egypt"
  ELSE NoStr

hasUnsupportedCountryMention(text) ==
  normalizeCountryName(text) = NoStr /\ Has(text, "unsup")

isCancelText(text) == Has(text, "cancel")

isAffirmativeText(text) == IsExactly(text, "yes") \/ IsExactly(text, "ok")

localMetaOrSmalltalk(text) ==
  IF Has(text, "help") THEN "meta"
  ELSE IF IsExactly(text, "hello") \/ IsExactly(text, "ok")
          \/ IsExactly(text, "thanks") THEN "smalltalk"
  ELSE NoStr

\* the words "тур", "хочу" and the country names
looksLikeTravelIntent(text) == Has(text, "travel") \/ Has(text, "country")

looksLikeTravelText(text) ==
  Has(text, "travel")
  \/ \E i \in 1..Len(text) : text[i].t = "country" /\ text[i].v = Turkey

\* parsePositiveInt: every non-digit is removed and what remains is one number
RECURSIVE ConcatDigits(_, _, _)
ConcatDigits(text, i, acc) ==
  IF i > Len(text) THEN acc
  ELSE IF text[i].t \in {"num", "phone"}
    THEN ConcatDigits(text, i + 1,
           (IF acc = Undef THEN 0 ELSE acc) * Pow10(DigitsLen(text[i].v))
           + text[i].v)
  ELSE ConcatDigits(text, i + 1, acc)

parsePositiveInt(text) ==
  LET value == ConcatDigits(text, 1, Undef)
  IN IF value = Undef \/ value <= 0 THEN Undef ELSE value

extractBudgetFromText(text) == extractBudget(text).max

\* Math.round(value * 1.2)
BudgetTargetMax(value) == (12 * value + 5) \div 10

\* the substring "до" occurs in "до" and in "дороже"
ContainsDo(text) == Has(text, "do") \/ Has(text, "pricier")

TargetPhrase(text) ==
  \E i \in 1..Len(text) : text[i].t = "za" /\ FollowedBy(text, i, "num")

detectBudgetTargetQuestion(text) ==
  LET budget == extractBudget(text)
  IN IF Has(text, "okolo") \/ ContainsDo(text) THEN Undef
     ELSE IF ~TargetPhrase(text) /\ ~Has(text, "q") THEN Undef
     ELSE IF budget.type = "none" THEN Undef
     ELSE IF budget.type = "approx" THEN budget.value
     ELSE budget.max

\* parseBudgetAnswer: kind "none" is not in the token alphabet ("без лимита")
parseBudgetAnswer(text) ==
  With(extractBudget(text), LAMBDA budget :
    IF budget.type = "none" THEN [kind |-> "undefined", value |-> Undef]
    ELSE IF budget.type = "approx"
      THEN [kind |-> "target", value |-> budget.value]
    ELSE [kind |-> "max", value |-> budget.max])

\* parseFollowupPatch: the patch, whether its budget_min key is present with
\* the value undefined (clearMin), and whether the result is null (no key).
PatchOf(text, pq, country) ==
  [EmptyArgs EXCEPT
     !.country_name = country,
     !.country_id = IF country # NoStr THEN COUNTRY_TO_ID(country) ELSE Undef,
     !.date_from = pq.dateFrom,
     !.date_to = pq.dateTo,
     !.nights_min = pq.nights,
     !.nights_max = pq.nights,
     !.budget_min = IF pq.budget.type = "approx" THEN pq.budget.min ELSE Undef,
     !.budget_max = IF pq.budget.type \in {"approx", "max"}
                    THEN pq.budget.max ELSE Undef,
     !.sort = IF pq.budget.type = "none" /\ Has(text, "pricier")
              THEN "price_desc" ELSE NoStr,
     !.meal = pq.meal]

parseFollowupPatch(text) ==
  With(parseQuery(text), LAMBDA pq :
    With(PatchOf(text, pq, normalizeCountryName(text)), LAMBDA patch :
      [args |-> patch,
       clearMin |-> pq.budget.type = "max",
       null |-> patch = EmptyArgs /\ pq.budget.type # "max"]))

\* buildRuleDraftFromText: the follow-up patch or {}, with the same
\* extractions applied once more.
buildRuleDraftFromText(text) ==
  With(parseFollowupPatch(text), LAMBDA patch :
    [args |-> patch.args, clearMin |-> patch.clearMin])

\* intentParser.parseUserInput, used when no classifier is configured
parseUserInput(text) ==
  LET big == FirstIndex(text, LAMBDA i :
               text[i].t \in {"num", "phone"}
               /\ DigitsLen(text[i].v) >= 5)
      doAt == FirstIndex(text, LAMBDA i :
                /\ text[i].t = "do" /\ FollowedBy(text, i, "num")
                /\ text[i + 1].v \in {100, 150, 250})
  IN [country_name |-> normalizeCountryName(text),
      budget_max |-> IF big # 0 /\ text[big].v > 0
                       THEN text[big].v % Pow10(7)
                     ELSE IF doAt # 0 THEN text[doAt + 1].v * 1000
                     ELSE Undef,
      period |-> NoStr,
      meal |-> IF Has(text, "mealAI") THEN "AI" ELSE NoStr]

(***************************************************************************)
(* favorites/store.ts: the saved tours (unique by hotel id) and the saved  *)
(* collections.  A tour is identified by its hotel_id; a page of results   *)
(* never has more than maxTours tours, so the slice of saveCollection      *)
(* keeps all of them.                                                      *)
(***************************************************************************)
createEmptyFavorites == [tours |-> <<>>, collections |-> {}]

\* a hotel_id arrives as a number or as its decimal text; Number() gives
\* the number in both cases
HotelId(n, text) == [n |-> n, text |-> text]
Number(id) == id.n

\* a tour as the store sees it
FavoriteTour(n) == [hotel_id |-> HotelId(n, FALSE)]

Range(seq) == { seq[i] : i \in 1..Len(seq) }

\* the hotel ids of a list of tours
HotelIds(tours) == { Number(t.hotel_id) : t \in Range(tours) }

\* a store that appends without looking for the hotel
saveTourUnchecked(favorites, tour) ==
  [favorites |-> [favorites EXCEPT !.tours = Append(@, tour)],
   added |-> TRUE]

saveTour(favorites, tour) ==
  LET hotelId == Number(tour.hotel_id)
      exists == \E i \in 1..Len(favorites.tours) :
                  Number(favorites.tours[i].hotel_id) = hotelId
  IN IF exists THEN [favorites |-> favorites, added |-> FALSE]
     ELSE [favorites |-> [favorites EXCEPT !.tours = Append(@, tour)],
           added |-> TRUE]

saveCollection(favorites, id, tours) ==
  [favorites EXCEPT !.collections = @ \cup {[id |-> id, tours |-> tours]}]

\* the tours of the collection, {} when there is no such collection
openCollection(favorites, id) ==
  UNION { c.tours : c \in { d \in favorites.collections : d.id = id } }

deleteCollection(favorites, id) ==
  [favorites |->
     [favorites EXCEPT !.collections = { c \in @ : c.id # id }],
   removed |-> \E c \in favorites.collections : c.id = id]

clearFavorites == createEmptyFavorites

(***************************************************************************)
(* ChatState and the functions that update it.  Tours are identified by    *)
(* their hotel_id; lastResults is the set of hotel ids of the last page.   *)
(***************************************************************************)
initial ==
  [step |-> "idle", countryId |-> Undef,
   nightsMin |-> DefaultNightsMin, nightsMax |-> DefaultNightsMax,
   budgetChosen |-> FALSE, budgetMax |-> Undef, budgetMin |-> Undef,
   ratingChosen |-> FALSE, ratingMin |-> Undef,
   period |-> NoStr, meal |-> "ANY", mealChosen |-> FALSE,
   editingFilter |-> NoStr,
   offset |-> 0, limit |-> DefaultLimit,
   lastRequestId |-> Undef, lastResults |-> {},
   pendingHotel |-> Undef, phonePromptShownForHotelId |-> Undef,
   aiMode |-> FALSE, aiDraft |-> NoArgs, aiAwaiting |-> NoStr,
   lastSearchArgs |-> NoArgs, activeSearchSeq |-> Undef,
   pendingBudgetClarification |-> [value |-> Undef, mode |-> NoStr],
   pendingPromptAction |-> NoStr,
   favorites |-> createEmptyFavorites, favoritesSeq |-> 0]

NoClarification == [value |-> Undef, mode |-> NoStr]

\* a reset that forgets to unpin the tour
resetSearchStateKeepsPin(state) ==
  [state EXCEPT
     !.nightsMin = DefaultNightsMin, !.nightsMax = DefaultNightsMax,
     !.budgetChosen = FALSE, !.budgetMax = Undef, !.budgetMin = Undef,
     !.ratingChosen = FALSE, !.ratingMin = Undef,
     !.period = NoStr, !.meal = "ANY", !.mealChosen = FALSE,
     !.editingFilter = NoStr,
     !.offset = DefaultOffset, !.limit = DefaultLimit,
     !.lastRequestId = Undef, !.lastResults = {},
     !.aiMode = FALSE, !.aiDraft = NoArgs, !.aiAwaiting = NoStr,
     !.lastSearchArgs = NoArgs, !.activeSearchSeq = Undef,
     !.pendingBudgetClarification = NoClarification,
     !.pendingPromptAction = NoStr]

\* a reset that also empties the favorites
resetSearchStateClearsFavorites(state) ==
  [state EXCEPT
     !.nightsMin = DefaultNightsMin, !.nightsMax = DefaultNightsMax,
     !.budgetChosen = FALSE, !.budgetMax = Undef, !.budgetMin = Undef,
     !.ratingChosen = FALSE, !.ratingMin = Undef,
     !.period = NoStr, !.meal = "ANY", !.mealChosen = FALSE,
     !.editingFilter = NoStr,
     !.offset = DefaultOffset, !.limit = DefaultLimit,
     !.lastRequestId = Undef, !.lastResults = {},
     !.pendingHotel = Undef, !.phonePromptShownForHotelId = Undef,
     !.aiMode = FALSE, !.aiDraft = NoArgs, !.aiAwaiting = NoStr,
     !.lastSearchArgs = NoArgs, !.activeSearchSeq = Undef,
     !.pendingBudgetClarification = NoClarification,
     !.pendingPromptAction = NoStr,
     !.favorites = createEmptyFavorites]

resetSearchState(state) ==
  [state EXCEPT
     !.nightsMin = DefaultNightsMin, !.nightsMax = DefaultNightsMax,
     !.budgetChosen = FALSE, !.budgetMax = Undef, !.budgetMin = Undef,
     !.ratingChosen = FALSE, !.ratingMin = Undef,
     !.period = NoStr, !.meal = "ANY", !.mealChosen = FALSE,
     !.editingFilter = NoStr,
     !.offset = DefaultOffset, !.limit = DefaultLimit,
     !.lastRequestId = Undef, !.lastResults = {},
     !.pendingHotel = Undef, !.phonePromptShownForHotelId = Undef,
     !.aiMode = FALSE, !.aiDraft = NoArgs, !.aiAwaiting = NoStr,
     !.lastSearchArgs = NoArgs, !.activeSearchSeq = Undef,
     !.pendingBudgetClarification = NoClarification,
     !.pendingPromptAction = NoStr]

resetFlow(state) ==
  [resetSearchState(state) EXCEPT
     !.lastSearchArgs = state.lastSearchArgs, !.step = "idle",
     !.pendingPromptAction = NoStr]

applyParsedIntent(state, parsed) ==
  LET s1 == IF parsed.country_name # NoStr
            THEN [state EXCEPT !.countryId = COUNTRY_TO_ID(parsed.country_name)]
            ELSE state
      s2 == IF parsed.budget_max # Undef
            THEN [s1 EXCEPT !.budgetChosen = TRUE,
                            !.budgetMax = parsed.budget_max]
            ELSE s1
      s3 == IF parsed.period # NoStr
            THEN [s2 EXCEPT !.period = parsed.period] ELSE s2
  IN IF parsed.meal \in {"AI", "BB", "ANY"}
     THEN [s3 EXCEPT !.mealChosen = TRUE, !.meal = parsed.meal]
     ELSE s3

applyOrchestratedSearchArgsToState(state, args) ==
  LET r == resetSearchState(state)
  IN [r EXCEPT
        !.nightsMin = IF args.nights_min # Undef THEN args.nights_min
                      ELSE DefaultNightsMin,
        !.nightsMax = IF args.nights_max # Undef THEN args.nights_max
                      ELSE DefaultNightsMax,
        !.countryId = IF args.country_id # Undef THEN args.country_id
                      ELSE r.countryId,
        !.budgetChosen = args.budget_max # Undef /\ args.budget_max > 0,
        !.budgetMax = IF args.budget_max # Undef /\ args.budget_max > 0
                      THEN args.budget_max ELSE Undef,
        !.budgetMin = IF args.budget_min # Undef /\ args.budget_min > 0
                      THEN args.budget_min ELSE Undef,
        !.ratingChosen = args.rating # Undef /\ args.rating > 0,
        !.ratingMin = IF args.rating # Undef /\ args.rating > 0
                      THEN args.rating ELSE Undef,
        !.period = args.period,
        !.mealChosen = args.meal \in {"AI", "BB", "ANY"},
        !.meal = IF args.meal \in {"AI", "BB", "ANY"} THEN args.meal
                 ELSE "ANY",
        !.limit = IF args.limit # Undef THEN args.limit ELSE DefaultLimit,
        !.offset = IF args.offset # Undef THEN args.offset ELSE DefaultOffset]

\* buildSearchArgs(chatId, state): the arguments of a search run from the
\* conversation state; a missing country is replaced by Turkey.
StateCountry(state) ==
  IF state.countryId = Undef THEN Turkey ELSE state.countryId

buildSearchArgs(state) ==
  [DEFAULT_SEARCH_TOURS_ARGS EXCEPT
     !.country_id = StateCountry(state),
     !.nights_min = state.nightsMin,
     !.nights_max = state.nightsMax,
     !.limit = state.limit,
     !.offset = state.offset,
     !.budget_max = IF state.budgetMax # Undef THEN state.budgetMax
                    ELSE DefaultBudgetMax,
     !.budget_min = state.budgetMin,
     !.rating = IF state.ratingMin # Undef /\ state.ratingMin > 0
                THEN state.ratingMin ELSE 0,
     !.period = state.period,
     !.meal = IF state.meal # "ANY" THEN state.meal ELSE "0"]

beginSearchSeq(state) ==
  IF state.activeSearchSeq = Undef THEN 1 ELSE state.activeSearchSeq + 1

isSearchSeqStale(state, seq) ==
  (IF state.activeSearchSeq = Undef THEN 0 ELSE state.activeSearchSeq) # seq

hasCountry(draft) == draft.country_id # Undef \/ draft.country_name # NoStr

hasNights(draft) == draft.nights_min # Undef /\ draft.nights_max # Undef

hasBudget(draft) == draft.budget_max # Undef /\ draft.budget_max > 0

hasAiSearchData(draft) == hasNights(draft) /\ hasBudget(draft)

nextAiAwaiting(draft) ==
  IF ~hasCountry(draft) THEN "country"
  ELSE IF ~hasNights(draft) THEN "nights"
  ELSE IF ~hasBudget(draft) THEN "budget"
  ELSE NoStr

getMissingFields(draft) ==
  (IF hasCountry(draft) THEN {} ELSE {"country"})
  \cup (IF hasNights(draft) THEN {} ELSE {"nights"})
  \cup (IF hasBudget(draft) THEN {} ELSE {"budget"})

resolveAiAwaiting(missingFields) ==
  IF "country" \in missingFields THEN "country"
  ELSE IF "nights" \in missingFields THEN "nights"
  ELSE IF "budget" \in missingFields THEN "budget"
  ELSE NoStr

\* sendCards: the state it leaves behind (the replies are added by the caller)
sendCards(state, requestid, results) ==
  [state EXCEPT !.step = "idle", !.aiAwaiting = NoStr, !.aiDraft = EmptyArgs,
                !.lastRequestId = requestid, !.lastResults = results]

isSamePendingHotel(state, hotelId) ==
  state.step = "await_phone" /\ state.pendingHotel = hotelId

saveTourToFavorites(state, tour) ==
  [state EXCEPT
     !.favorites = saveTour(state.favorites, FavoriteTour(tour)).favorites]

removeTourFromFavorites(state, hotelId) ==
  [state EXCEPT
     !.favorites.tours =
        SelectSeq(@, LAMBDA t : Number(t.hotel_id) # hotelId)]

\* a variant that numbers a collection by its place in the list
saveCurrentCollectionByPosition(state) ==
  [state EXCEPT
     !.favoritesSeq = Cardinality(state.favorites.collections) + 1,
     !.favorites = saveCollection(@, Cardinality(@.collections) + 1,
                                  state.lastResults)]

\* a page of results must be there; the collection gets the next id
saveCurrentCollectionToFavorites(state) ==
  [state EXCEPT
     !.favoritesSeq = @ + 1,
     !.favorites = saveCollection(@, state.favoritesSeq + 1,
                                  state.lastResults)]

collectFavoriteTours(state) ==
  HotelIds(state.favorites.tours)
  \cup UNION { c.tours : c \in state.favorites.collections }

\* the tour is looked up in the last page, then in the favorites, whatever
\* the source hint of the button
findTourForWantAction(state, hotelId) ==
  IF hotelId \in state.lastResults THEN hotelId
  ELSE IF hotelId \in collectFavoriteTours(state) THEN hotelId
  ELSE Undef

(***************************************************************************)
(* What a handler does up to its first backend call: the state it leaves,  *)
(* the replies it sends, and the search it starts (kind "none" when it     *)
(* starts none).  kind "direct": the handler awaits callSearchTours        *)
(* itself; kind "retry": it awaits runSearchWithRetry.  tail "ai": the     *)
(* handler clears the slot-filling fields after the search has returned;   *)
(* draft is then the draft the search was started from.  leads are the     *)
(* records it appends to data/leads.jsonl, cards the (requestid, hotel)    *)
(* cards it sends without a backend call.                                  *)
(***************************************************************************)
NoCall ==
  [kind |-> "none", seq |-> 0, args |-> NoArgs, tail |-> "none",
   draft |-> NoArgs]

Reply(state, replies) ==
  [st |-> state, out |-> replies, call |-> NoCall, leads |-> <<>>,
   cards |-> {}, llm |-> NoStr]

\* runSearch up to `await callSearchTours(args)`
runSearch(state) ==
  LET seq == beginSearchSeq(state)
      s1 == [state EXCEPT !.activeSearchSeq = seq,
                          !.countryId = StateCountry(state)]
      args == buildSearchArgs(s1)
  IN [st |-> [s1 EXCEPT !.lastSearchArgs = searchToursInputSchema(args)],
      seq |-> seq, args |-> args]

runSearchWithRetry(state, replies, tail) ==
  LET r == runSearch(state)
  IN [st |-> r.st, out |-> replies,
      call |-> [kind |-> "retry", seq |-> r.seq, args |-> r.args,
                tail |-> tail, draft |-> NoArgs],
      leads |-> <<>>, cards |-> {}, llm |-> NoStr]

\* the handlers that call the backend themselves: the specification is
\* applied to the state, recorded as the last one, and a sequence number taken
DirectSearch(state, replies, args) ==
  LET s1 == [applyOrchestratedSearchArgsToState(state, args)
               EXCEPT !.lastSearchArgs = args]
      seq == beginSearchSeq(s1)
  IN [st |-> [s1 EXCEPT !.activeSearchSeq = seq], out |-> replies,
      call |-> [kind |-> "direct", seq |-> seq, args |-> args,
                tail |-> "none", draft |-> NoArgs],
      leads |-> <<>>, cards |-> {}, llm |-> NoStr]

DraftOf(state) == IF state.aiDraft.def THEN state.aiDraft ELSE EmptyArgs

runAiDraftSearch(state, replies) ==
  LET parsed == searchToursInputSchema(
                  Spread(DEFAULT_SEARCH_TOURS_ARGS, DraftOf(state), FALSE))
      s1 == [applyOrchestratedSearchArgsToState(state, parsed)
               EXCEPT !.lastSearchArgs = parsed]
      r == runSearchWithRetry(
             s1, replies \o <<"ai_search_started", "searching">>, "ai")
  IN [r EXCEPT !.call.draft = DraftOf(state)]

askAiMissingField(state) ==
  IF state.aiAwaiting = "country" THEN <<"ask_ai_country">>
  ELSE IF state.aiAwaiting = "nights" THEN <<"ask_ai_nights">>
  ELSE IF state.aiAwaiting = "budget" THEN <<"ask_ai_budget">>
  ELSE <<>>

\* the common end of the slot-filling handlers: the draft has been updated;
\* search when nights and budget are known, else prompt for what is awaited
AiAdvance(state, draft, ack) ==
  LET s1 == [state EXCEPT !.aiDraft = draft,
                          !.aiAwaiting = nextAiAwaiting(draft)]
  IN IF hasAiSearchData(draft) THEN runAiDraftSearch(s1, <<>>)
     ELSE Reply(s1, ack \o askAiMissingField(s1))

\* the digits of the message are those of one phone number
normalizePhone(text) ==
  LET at == FirstIndex(text, LAMBDA i : text[i].t = "phone")
  IN IF at # 0 /\ ~Has(text, "num")
        /\ \A i \in 1..Len(text) : text[i].t = "phone" => i = at
     THEN [ok |-> TRUE, phone |-> text[at].v]
     ELSE [ok |-> FALSE, phone |-> Undef]

\* saveLead: nothing is written without a pinned tour, a last request id
\* and a country
saveLead(state, phone) ==
  IF state.pendingHotel = Undef \/ state.lastRequestId = Undef
     \/ state.countryId = Undef
  THEN <<>>
  ELSE << [phone_number |-> phone, country_id |-> state.countryId,
           requestid |-> state.lastRequestId,
           hotel_id |-> state.pendingHotel] >>

\* showFavorites: sendFavoriteCards replaces the last page by the favorites
\* and showFavorites puts the last page back
showFavorites(state) ==
  LET tours == collectFavoriteTours(state)
  IN IF tours = {} THEN Reply(state, <<"favorites_empty">>)
     ELSE [Reply([state EXCEPT !.step = "idle", !.aiAwaiting = NoStr,
                               !.aiDraft = EmptyArgs],
                 <<"favorites", "favorite_cards", "favorite_actions">>)
             EXCEPT !.cards = { [req |-> FavoritesListId, hotel |-> h] :
                                h \in tours }]

replyCancelReset(state) ==
  Reply([resetFlow(state) EXCEPT !.aiMode = TRUE, !.aiAwaiting = "country"],
        <<"cancel_reset", "countries">>)

continueFlow(state) ==
  IF state.countryId = Undef THEN Reply(state, <<"ask_country">>)
  ELSE IF ~state.budgetChosen /\ state.step # "budget_input"
    THEN Reply(state, <<"ask_budget">>)
  ELSE IF ~state.ratingChosen THEN Reply(state, <<"ask_quality">>)
  ELSE IF state.period = NoStr THEN Reply(state, <<"ask_period">>)
  ELSE IF ~state.mealChosen THEN Reply(state, <<"ask_meal">>)
  ELSE runSearchWithRetry(state, <<"searching">>, "none")

(***************************************************************************)
(* orchestrator.ts: handleUserMessage.  The external classifier's answer   *)
(* is the parameter `intent`: "search" (search_tours with no arguments of  *)
(* its own), "meta", "smalltalk", "unknown", or one of the failures:       *)
(* "error" (parseIntent throws), "invalid" (the answer does not match      *)
(* ParsedIntentSchema), "timeout" (the time limit of the caller).          *)
(***************************************************************************)
ClassifierFailures == {"error", "invalid", "timeout"}

Intents == {"search", "meta", "smalltalk", "unknown"} \cup ClassifierFailures

\* the outcome of a handler that called the classifier and got `raw`
Classified(r, raw) == [r EXCEPT !.llm = raw]

\* the answer taken as it comes, with no try/catch and no schema check
ClassifiedIntentUnchecked(raw) == [type |-> raw, reason |-> NoStr]

\* try { parseIntent } catch, then ParsedIntentSchema.safeParse
ClassifiedIntent(raw) ==
  IF raw = "error" THEN [type |-> "unknown", reason |-> "provider_error"]
  ELSE IF raw = "invalid" THEN [type |-> "unknown", reason |-> "invalid_intent"]
  ELSE [type |-> raw, reason |-> NoStr]

buildDraftArgs(text) ==
  With(parseQuery(text), LAMBDA pq :
    LET country == normalizeCountryName(text)
        nine == \E i \in 1..Len(text) : text[i].t = "num" /\ text[i].v = 9
    IN [EmptyArgs EXCEPT
          !.country_name = country,
          !.country_id = IF country # NoStr THEN COUNTRY_TO_ID(country)
                         ELSE Undef,
          !.nights_min = pq.nights,
          !.nights_max = pq.nights,
          !.budget_min = IF pq.budget.type = "approx" THEN pq.budget.min
                         ELSE Undef,
          !.budget_max = IF pq.budget.type \in {"approx", "max"}
                         THEN pq.budget.max ELSE Undef,
          !.date_from = IF pq.dateFrom # NoStr THEN pq.dateFrom
                        ELSE IF nine THEN MonthDateFrom(9) ELSE NoStr,
          !.date_to = IF pq.dateTo # NoStr THEN pq.dateTo
                      ELSE IF nine THEN MonthDateTo(9) ELSE NoStr])

\* buildSearchArgs of orchestrator.ts
OrchestratorSearchArgs(draft) ==
  LET merged == Spread(DEFAULT_SEARCH_TOURS_ARGS, draft, FALSE)
  IN searchToursInputSchema(
       [merged EXCEPT !.country_id =
          IF merged.country_id = Undef /\ merged.country_name # NoStr
          THEN COUNTRY_TO_ID(merged.country_name) ELSE merged.country_id])

NoMeta(type, reason) ==
  [intent_type |-> type, reason |-> reason, search_args |-> NoArgs,
   missing_fields |-> {}, draft_args |-> NoArgs]

handleUserMessage(text, raw) ==
  With(ClassifiedIntent(raw), LAMBDA intent :
  IF raw = "timeout" THEN NoMeta("unknown", "timeout")
  ELSE IF hasUnsupportedCountryMention(text)
    THEN NoMeta("unknown", "unsupported_country")
  ELSE IF intent.type = "search" THEN
    With(buildDraftArgs(text), LAMBDA draftArgs :
      With(getMissingFields(draftArgs), LAMBDA missingFields :
        [intent_type |-> "search_tours", reason |-> NoStr,
         search_args |-> IF missingFields = {}
                         THEN OrchestratorSearchArgs(draftArgs) ELSE NoArgs,
         missing_fields |-> missingFields, draft_args |-> draftArgs]))
  ELSE IF intent.type \in {"meta", "smalltalk"} THEN NoMeta(intent.type, NoStr)
  ELSE IF intent.type = "unknown" /\ normalizeCountryName(text) # NoStr THEN
    With(buildDraftArgs(text), LAMBDA draftArgs :
      [intent_type |-> "search_tours", reason |-> intent.reason,
       search_args |-> NoArgs,
       missing_fields |-> getMissingFields(draftArgs),
       draft_args |-> draftArgs])
  ELSE IF intent.type = "unknown" /\ looksLikeTravelText(text) THEN
    [intent_type |-> "search_tours", reason |-> intent.reason,
     search_args |-> NoArgs,
     missing_fields |-> getMissingFields(EmptyArgs), draft_args |-> EmptyArgs]
  ELSE NoMeta("unknown", IF intent.type = "unknown" THEN intent.reason
                         ELSE NoStr))

(***************************************************************************)
(* bot.on("text"): the branches, in the order of the source.               *)
(***************************************************************************)
\* an answer to "is this amount a maximum or a target?"
TextBudgetClarification(state, text) ==
  LET pending == state.pendingBudgetClarification
      explicitTarget == Has(text, "okolo") \/ TargetPhrase(text)
      extracted == extractBudgetFromText(text)
      parsedBudget == IF extracted # Undef THEN extracted ELSE pending.value
      resolved == IF explicitTarget THEN BudgetTargetMax(parsedBudget)
                  ELSE parsedBudget
      s1 == [state EXCEPT !.pendingBudgetClarification = NoClarification]
  IN IF parsedBudget = Undef \/ parsedBudget = 0
       THEN Reply(state, <<"amount_not_understood">>)
     ELSE IF pending.mode = "followup" /\ state.lastSearchArgs.def
       THEN DirectSearch(s1, <<"updating">>,
              searchToursInputSchema(
                [state.lastSearchArgs EXCEPT !.budget_max = resolved,
                                             !.offset = 0]))
     ELSE AiAdvance([s1 EXCEPT !.aiMode = TRUE],
                    [DraftOf(state) EXCEPT !.budget_max = resolved], <<>>)

\* the typed commands
TextCommand(state, command) ==
  IF command = "SHOW_MORE" THEN
    IF state.lastRequestId # Undef
    THEN runSearchWithRetry(
           [state EXCEPT !.offset = state.offset + state.limit], <<>>, "none")
    ELSE Reply(state, <<"run_search_first">>)
  ELSE IF command = "FAVORITES"
    THEN showFavorites([state EXCEPT !.pendingPromptAction = NoStr])
  ELSE IF command = "CLEAR_FAVORITES"
    THEN Reply([state EXCEPT !.pendingPromptAction = NoStr,
                             !.favorites = clearFavorites],
               <<"favorites_cleared">>)
  ELSE Reply([resetSearchState(state) EXCEPT !.step = "idle"],
             <<"new_search", "countries">>)

TextSmalltalk(state, text) ==
  Reply(state,
    <<"smalltalk">> \o
    (IF state.aiMode /\ state.aiAwaiting # NoStr /\ ~Has(text, "thanks")
       THEN askAiMissingField(state)
     ELSE IF state.step = "budget_input" /\ ~Has(text, "thanks")
       THEN <<"ask_budget_text">>
     ELSE <<>>))

\* localMetaOrSmalltalk: the classifier may turn one kind into the other
TextOfftopic(state, text, llm, intent) ==
  LET llmIntentType == IF llm /\ intent \in {"meta", "smalltalk"} THEN intent
                       ELSE localMetaOrSmalltalk(text)
      r == IF llmIntentType = "meta"
           THEN Reply(resetFlow(state), <<"capabilities">>)
           ELSE Reply(state, <<"smalltalk">>)
  IN IF llm THEN Classified(r, intent) ELSE r

\* step budget_input: the custom budget of the guided flow
TextBudgetInput(state, text) ==
  LET budget == parseBudgetAnswer(text)
      s1 == [state EXCEPT
               !.budgetChosen = TRUE, !.budgetMin = Undef,
               !.budgetMax = IF budget.kind = "target"
                             THEN BudgetTargetMax(budget.value)
                             ELSE budget.value,
               !.step = "idle"]
  IN IF budget.kind = "undefined" THEN Reply(state, <<"enter_amount">>)
     ELSE IF state.editingFilter = "budget"
       THEN runSearchWithRetry(
              [s1 EXCEPT !.offset = 0, !.editingFilter = NoStr],
              <<"searching">>, "none")
     ELSE Reply(s1, <<"ask_quality">>)

\* steps ai_nights_input / ai_budget_input: a typed custom value; the other
\* slots found in the same message are merged as well
MergeRuleSlots(draft, fullPatch) ==
  [draft EXCEPT
     !.def = TRUE,
     !.country_id = IF fullPatch.country_id # Undef THEN fullPatch.country_id
                    ELSE @,
     !.country_name = IF fullPatch.country_name # NoStr
                      THEN fullPatch.country_name ELSE @,
     !.meal = IF fullPatch.meal # NoStr THEN fullPatch.meal ELSE @,
     !.date_from = IF fullPatch.date_from # NoStr THEN fullPatch.date_from
                   ELSE @,
     !.date_to = IF fullPatch.date_to # NoStr THEN fullPatch.date_to ELSE @]

TextAiNightsInput(state, text) ==
  With(buildRuleDraftFromText(text).args, LAMBDA fullPatch :
  LET nights == IF fullPatch.nights_min # Undef THEN fullPatch.nights_min
                ELSE parsePositiveInt(text)
      merged == MergeRuleSlots(DraftOf(state), fullPatch)
      draft == [merged EXCEPT
                  !.nights_min = nights, !.nights_max = nights,
                  !.budget_max = IF fullPatch.budget_max # Undef
                                 THEN fullPatch.budget_max ELSE @]
  IN IF nights = Undef \/ nights < 1 \/ nights > MaxNights
       THEN Reply(state, <<"nights_range">>)
     ELSE AiAdvance([state EXCEPT !.step = "idle"], draft, <<"accepted">>))

TextAiBudgetInput(state, text) ==
  With(buildRuleDraftFromText(text).args, LAMBDA fullPatch :
  LET budget == IF fullPatch.budget_max # Undef THEN fullPatch.budget_max
                ELSE parsePositiveInt(text)
      merged == MergeRuleSlots(DraftOf(state), fullPatch)
      draft == [merged EXCEPT
                  !.budget_max = budget,
                  !.nights_min = IF fullPatch.nights_min # Undef
                                 THEN fullPatch.nights_min ELSE @,
                  !.nights_max = IF fullPatch.nights_max # Undef
                                 THEN fullPatch.nights_max ELSE @]
  IN IF budget = Undef \/ budget = 0 \/ budget < MinBudgetAnswer
       THEN Reply(state, <<"budget_example">>)
     ELSE AiAdvance([state EXCEPT !.step = "idle"], draft, <<"accepted">>))

\* slot filling, the country is awaited
TextAiCountry(state, text) ==
  LET normalizedCountry == normalizeCountryName(text)
      draft == [DraftOf(state) EXCEPT !.country_name = normalizedCountry]
      s1 == [state EXCEPT !.aiDraft = draft,
                          !.aiAwaiting = nextAiAwaiting(draft)]
  IN IF normalizedCountry = NoStr
       THEN IF hasUnsupportedCountryMention(text)
            THEN Reply(state, <<"unsupported_country">>)
            ELSE Reply(state, askAiMissingField(state))
     ELSE Reply(s1, askAiMissingField(s1))

\* slot filling, the nights or the budget are awaited
TextAiNightsBudget(state, text) ==
  LET value == parsePositiveInt(text)
      weekendDraft == [DraftOf(state) EXCEPT !.nights_min = 3, !.nights_max = 3]
      weekendState == [state EXCEPT !.aiDraft = weekendDraft,
                                    !.aiAwaiting = nextAiAwaiting(weekendDraft)]
  IN IF state.aiAwaiting = "nights" /\ Has(text, "weekend") THEN
       IF hasAiSearchData(weekendDraft)
       THEN runAiDraftSearch(weekendState, <<"three_nights">>)
       ELSE Reply(weekendState, <<"three_nights">>)
     ELSE IF value = Undef THEN Reply(state, askAiMissingField(state))
     ELSE IF state.aiAwaiting = "nights" THEN
       IF value < 1 \/ value > MaxNights
       THEN Reply(state, <<"nights_range">>)
       ELSE AiAdvance(state, [DraftOf(state) EXCEPT !.nights_min = value,
                                                    !.nights_max = value],
                      <<>>)
     ELSE IF value < MinBudgetAnswer THEN Reply(state, <<"budget_example">>)
     ELSE AiAdvance(state, [DraftOf(state) EXCEPT !.budget_max = value], <<>>)

\* a refinement of the last executed search (classifier configured)
IsFollowup(state, text) ==
  \/ hasUnsupportedCountryMention(text)
  \/ detectBudgetTargetQuestion(text) # Undef
  \/ ~parseFollowupPatch(text).null

\* a follow-up branch that always sends the ordinary confirmation
TextFollowupAlwaysUpdating(state, text) ==
  With(parseFollowupPatch(text), LAMBDA followupPatch :
  LET budgetTarget == detectBudgetTargetQuestion(text)
      merged == Spread(state.lastSearchArgs, followupPatch.args,
                       followupPatch.clearMin)
      nextArgs == searchToursInputSchema([merged EXCEPT !.offset = 0])
      switch == followupPatch.args.country_id # Undef
                /\ followupPatch.args.country_id # state.lastSearchArgs.country_id
  IN IF hasUnsupportedCountryMention(text)
       THEN Reply(resetFlow(state), <<"unsupported_country">>)
     ELSE IF budgetTarget # Undef
       THEN Reply([state EXCEPT !.pendingBudgetClarification =
                     [value |-> budgetTarget, mode |-> "followup"]],
                  <<"max_or_target">>)
     ELSE DirectSearch(state,
            IF switch THEN <<"switch_country", "updating">>
            ELSE <<"updating">>, nextArgs))

\* a follow-up branch that goes on from the page last shown
TextFollowupKeepingOffset(state, text) ==
  With(parseFollowupPatch(text), LAMBDA followupPatch :
  LET budgetTarget == detectBudgetTargetQuestion(text)
      merged == Spread(state.lastSearchArgs, followupPatch.args,
                       followupPatch.clearMin)
      nextArgs == searchToursInputSchema(merged)
      switch == followupPatch.args.country_id # Undef
                /\ followupPatch.args.country_id # state.lastSearchArgs.country_id
  IN IF hasUnsupportedCountryMention(text)
       THEN Reply(resetFlow(state), <<"unsupported_country">>)
     ELSE IF budgetTarget # Undef
       THEN Reply([state EXCEPT !.pendingBudgetClarification =
                     [value |-> budgetTarget, mode |-> "followup"]],
                  <<"max_or_target">>)
     ELSE DirectSearch(state,
            IF switch THEN <<"switch_country">> ELSE <<"updating">>, nextArgs))

TextFollowup(state, text) ==
  With(parseFollowupPatch(text), LAMBDA followupPatch :
  LET budgetTarget == detectBudgetTargetQuestion(text)
      merged == Spread(state.lastSearchArgs, followupPatch.args,
                       followupPatch.clearMin)
      nextArgs == searchToursInputSchema([merged EXCEPT !.offset = 0])
      switch == followupPatch.args.country_id # Undef
                /\ followupPatch.args.country_id # state.lastSearchArgs.country_id
  IN IF hasUnsupportedCountryMention(text)
       THEN Reply(resetFlow(state), <<"unsupported_country">>)
     ELSE IF budgetTarget # Undef
       THEN Reply([state EXCEPT !.pendingBudgetClarification =
                     [value |-> budgetTarget, mode |-> "followup"]],
                  <<"max_or_target">>)
     ELSE DirectSearch(state,
            IF switch THEN <<"switch_country">> ELSE <<"updating">>, nextArgs))

\* a new free-text request (classifier configured, step idle)
TextOrchestrate(state, text, intent) ==
  With(buildRuleDraftFromText(text), LAMBDA ruleDraft :
  With(handleUserMessage(text, intent), LAMBDA orchestrated :
  LET ambiguousBudget == detectBudgetTargetQuestion(text)
      ambiguousDraft == Spread(DraftOf(state), ruleDraft.args, ruleDraft.clearMin)
      reset == resetFlow(state)
      collecting == [reset EXCEPT
                       !.aiMode = TRUE, !.aiDraft = orchestrated.draft_args,
                       !.aiAwaiting = resolveAiAwaiting(orchestrated.missing_fields),
                       !.step = "idle"]
      askCountryState == [state EXCEPT !.aiMode = TRUE, !.aiDraft = EmptyArgs,
                                       !.aiAwaiting = "country", !.step = "idle"]
  IN IF ambiguousBudget # Undef /\ looksLikeTravelIntent(text) THEN
       Reply([state EXCEPT
                !.aiMode = TRUE, !.aiDraft = ambiguousDraft,
                !.aiAwaiting = nextAiAwaiting(ambiguousDraft),
                !.pendingBudgetClarification =
                  [value |-> ambiguousBudget, mode |-> "ai"]],
             <<"max_or_target">>)
     ELSE IF ruleDraft.args.country_id # Undef /\ hasNights(ruleDraft.args)
             /\ hasBudget(ruleDraft.args) THEN
       DirectSearch(state, <<"analyzing">>,
         searchToursInputSchema(
           [Spread(DEFAULT_SEARCH_TOURS_ARGS, ruleDraft.args, ruleDraft.clearMin)
              EXCEPT !.offset = 0]))
     ELSE Classified(
       IF orchestrated.intent_type = "search_tours" THEN
         IF orchestrated.missing_fields # {} /\ orchestrated.draft_args.def
           THEN Reply(collecting,
                      <<"ai_prompt">> \o askAiMissingField(collecting))
         ELSE IF ~orchestrated.search_args.def
           THEN Reply(reset, <<"need_params">>)
         ELSE DirectSearch(reset, <<"analyzing", "confirmation">>,
                           orchestrated.search_args)
       ELSE IF orchestrated.intent_type \in {"meta", "smalltalk"}
         THEN Reply(reset, <<"orchestrator_text">>)
       ELSE IF orchestrated.reason = "unsupported_country"
         THEN Reply([reset EXCEPT !.aiMode = TRUE, !.aiDraft = EmptyArgs,
                                  !.aiAwaiting = "country", !.step = "idle"],
                    <<"unsupported_country">>)
       ELSE IF looksLikeTravelIntent(text)
         THEN Reply(askCountryState, askAiMissingField(askCountryState))
       ELSE Reply(state, <<"orchestrator_text">>),
       intent)))

\* step await_phone: a valid phone number records the lead
TextAwaitPhone(state, text) ==
  LET normalized == normalizePhone(text)
  IN IF ~normalized.ok THEN Reply(state, <<"invalid_phone">>)
     ELSE [Reply([state EXCEPT !.step = "idle", !.pendingHotel = Undef,
                               !.phonePromptShownForHotelId = Undef],
                 <<"thanks_checking", "more_options", "find_more">>)
             EXCEPT !.leads = saveLead(state, normalized.phone)]

\* bot.on("text")
OnText(state, text, llm, intent) ==
  With(parseQuery(text), LAMBDA pq :
  LET hasExplicitParams ==
        \/ pq.country # NoStr \/ pq.unknownCountry # NoStr
        \/ pq.nights # Undef \/ pq.budget.type # "none"
        \/ pq.meal # NoStr \/ pq.month # Undef
      plainYes == isAffirmativeText(text) /\ ~hasExplicitParams
                  /\ pq.command = NoStr
      \* a pending yes/no prompt is dropped by anything but smalltalk
      s0 == IF state.pendingPromptAction # NoStr
               /\ (hasExplicitParams \/ pq.command # NoStr \/ ~pq.smalltalk)
            THEN [state EXCEPT !.pendingPromptAction = NoStr] ELSE state
      \* with a classifier configured an unparseable custom budget resets
      s1 == IF llm /\ s0.step = "budget_input"
               /\ parseBudgetAnswer(text).kind = "undefined"
            THEN resetFlow(s0) ELSE s0
  IN IF isCancelText(text) THEN replyCancelReset(state)
     ELSE IF state.pendingPromptAction = "show_favorites"
             /\ isAffirmativeText(text)
       THEN showFavorites([state EXCEPT !.pendingPromptAction = NoStr])
     ELSE IF state.pendingBudgetClarification.mode # NoStr
       THEN TextBudgetClarification(state, text)
     ELSE IF plainYes /\ s0.aiMode /\ s0.aiAwaiting # NoStr
       THEN Reply(s0, <<"write_value">> \o askAiMissingField(s0))
     ELSE IF plainYes /\ s0.step = "budget_input"
       THEN Reply(s0, <<"write_budget">>)
     ELSE IF pq.command # NoStr /\ ~hasExplicitParams
       THEN TextCommand(s0, pq.command)
     ELSE IF pq.unknownCountry # NoStr
       THEN Reply(resetFlow(s0), <<"unsupported_country">>)
     ELSE IF pq.smalltalk /\ ~hasExplicitParams /\ pq.command = NoStr
       THEN TextSmalltalk(s0, text)
     ELSE IF localMetaOrSmalltalk(text) # NoStr
       THEN TextOfftopic(s1, text, llm, intent)
     ELSE IF hasUnsupportedCountryMention(text)
       THEN Reply(resetFlow(s1), <<"unsupported_country">>)
     ELSE IF s1.step = "budget_input" THEN TextBudgetInput(s1, text)
     ELSE IF s1.step = "ai_nights_input" THEN TextAiNightsInput(s1, text)
     ELSE IF s1.step = "ai_budget_input" THEN TextAiBudgetInput(s1, text)
     ELSE IF s1.aiMode /\ s1.step = "idle" /\ s1.aiAwaiting = "country"
       THEN TextAiCountry(s1, text)
     ELSE IF s1.aiMode /\ s1.step = "idle"
             /\ s1.aiAwaiting \in {"nights", "budget"}
       THEN TextAiNightsBudget(s1, text)
     ELSE IF llm /\ s1.step = "idle" /\ s1.lastSearchArgs.def
             /\ IsFollowup(s1, text)
       THEN TextFollowup(s1, text)
     ELSE IF s1.step = "await_phone" THEN TextAwaitPhone(s1, text)
     ELSE IF llm /\ s1.step = "idle" THEN TextOrchestrate(s1, text, intent)
     ELSE continueFlow(applyParsedIntent(s1, parseUserInput(text))))

(***************************************************************************)
(* The inline buttons and commands.  A button is [b, n, s]: its kind, its  *)
(* numeric argument (Undef for "custom" and "any") and its string          *)
(* argument.  Ratings are carried in tenths (42 for "4.2").                *)
(***************************************************************************)
Btn(kind, num, str) == [b |-> kind, n |-> num, s |-> str]

\* bot.action(/^budget:(.+)$/)
ButtonBudget(state, value) ==
  LET s1 == [state EXCEPT !.step = "idle", !.budgetChosen = TRUE,
                          !.budgetMax = value]
  IN IF value = Undef
       THEN Reply([state EXCEPT !.step = "budget_input"], <<"enter_budget">>)
     ELSE IF state.editingFilter = "budget"
       THEN runSearchWithRetry(
              [s1 EXCEPT !.offset = 0, !.editingFilter = NoStr],
              <<"searching">>, "none")
     ELSE Reply(s1, <<"ask_quality">>)

\* bot.action(/^rating:(.+)$/)
ButtonRating(state, value) ==
  LET s1 == [state EXCEPT !.ratingChosen = TRUE, !.ratingMin = value]
  IN IF state.editingFilter = "rating"
       THEN runSearchWithRetry(
              [s1 EXCEPT !.offset = 0, !.editingFilter = NoStr],
              <<"searching">>, "none")
     ELSE Reply(s1, <<"ask_period">>)

\* bot.action(/^period:(.+)$/)
ButtonPeriod(state, value) ==
  LET s1 == [state EXCEPT !.period = value]
  IN IF state.editingFilter = "period"
       THEN runSearchWithRetry(
              [s1 EXCEPT !.offset = 0, !.editingFilter = NoStr],
              <<"searching">>, "none")
     ELSE Reply(s1, <<"ask_meal">>)

\* bot.action(/^meal:(.+)$/)
ButtonMeal(state, value) ==
  runSearchWithRetry(
    [state EXCEPT !.meal = value, !.mealChosen = TRUE, !.offset = 0,
                  !.editingFilter = IF @ = "meal" THEN NoStr ELSE @],
    <<"searching">>, "none")

\* bot.action(/^ai:nights:(\d+|custom)$/)
ButtonAiNights(state, value) ==
  IF ~state.aiMode THEN Reply(state, <<>>)
  ELSE IF value = Undef
    THEN Reply([state EXCEPT !.step = "ai_nights_input"], <<"enter_nights">>)
  ELSE AiAdvance(state, [DraftOf(state) EXCEPT !.nights_min = value,
                                               !.nights_max = value],
                 <<"nights_saved">>)

\* bot.action(/^ai:budget:(\d+|custom)$/)
ButtonAiBudget(state, value) ==
  IF ~state.aiMode THEN Reply(state, <<>>)
  ELSE IF value = Undef
    THEN Reply([state EXCEPT !.step = "ai_budget_input"], <<"enter_budget">>)
  ELSE AiAdvance(state, [DraftOf(state) EXCEPT !.budget_max = value],
                 <<"budget_saved">>)

\* bot.action(/^ai:country:(\d+)$/)
ButtonAiCountry(state, countryId) ==
  IF ~state.aiMode THEN Reply(state, <<>>)
  ELSE AiAdvance(state, [DraftOf(state) EXCEPT !.country_id = countryId], <<>>)

\* bot.action(/^more:(.+)$/)
ButtonMore(state, reqid) ==
  IF state.lastRequestId = Undef \/ state.lastRequestId # reqid
    THEN Reply(state, <<"session_expired">>)
  ELSE runSearchWithRetry(
         [state EXCEPT !.offset = state.offset + state.limit], <<>>, "none")

\* bot.action("fav:save_collection")
ButtonFavSaveCollection(state) ==
  IF state.lastResults = {} THEN Reply(state, <<"search_first">>)
  ELSE Reply([saveCurrentCollectionToFavorites(state)
                EXCEPT !.pendingPromptAction = "show_favorites"],
             <<"collection_saved">>)

\* bot.action(/^fav:tour:(\d+)$/)
ButtonFavTour(state, hotelId) ==
  IF hotelId \notin state.lastResults THEN Reply(state, <<"not_in_page">>)
  ELSE Reply(saveTourToFavorites(state, hotelId),
             IF saveTour(state.favorites, FavoriteTour(hotelId)).added
             THEN <<"tour_saved">> ELSE <<"tour_already_saved">>)

\* the request id of the cards of an opened collection, "fav-col-<id>"
FavColRequestId(id) == 0 - (id + 1)

\* bot.action(/^fav:open:(.+)$/)
ButtonFavOpen(state, id) ==
  IF \A c \in state.favorites.collections : c.id # id
  THEN Reply(state, <<"no_such_collection">>)
  ELSE [Reply(sendCards(state, FavColRequestId(id),
                        openCollection(state.favorites, id)),
              <<"opening_collection", "cards", "actions">>)
          EXCEPT !.cards = { [req |-> FavColRequestId(id), hotel |-> h] :
                             h \in openCollection(state.favorites, id) }]

OnButton(state, btn) ==
  CASE btn.b = "country" ->
         Reply([resetSearchState(state) EXCEPT !.countryId = btn.n],
               <<"ask_budget">>)
    [] btn.b = "budget" -> ButtonBudget(state, btn.n)
    [] btn.b = "rating" -> ButtonRating(state, btn.n)
    [] btn.b = "period" -> ButtonPeriod(state, btn.s)
    [] btn.b = "meal" -> ButtonMeal(state, btn.s)
    [] btn.b = "ai:nights" -> ButtonAiNights(state, btn.n)
    [] btn.b = "ai:budget" -> ButtonAiBudget(state, btn.n)
    [] btn.b = "ai:country" -> ButtonAiCountry(state, btn.n)
    [] btn.b \in {"ai:cancel", "/cancel"} -> replyCancelReset(state)
    [] btn.b = "more" -> ButtonMore(state, btn.n)
    [] btn.b = "retry" -> runSearchWithRetry(state, <<"searching">>, "none")
    [] btn.b = "new" ->
         Reply([resetSearchState(state) EXCEPT !.step = "idle"],
               <<"ask_country">>)
    [] btn.b = "/start" -> Reply(resetFlow(state), <<"start">>)
    [] btn.b = "fav:save_collection" -> ButtonFavSaveCollection(state)
    [] btn.b = "fav:list" ->
         showFavorites([state EXCEPT !.pendingPromptAction = NoStr])
    [] btn.b = "fav:clear" ->
         Reply([state EXCEPT !.favorites = clearFavorites,
                             !.pendingPromptAction = NoStr],
               <<"favorites_cleared">>)
    [] btn.b = "fav:tour" -> ButtonFavTour(state, btn.n)
    [] btn.b = "fav:remove" ->
         Reply(removeTourFromFavorites(state, btn.n),
               IF btn.n \in HotelIds(state.favorites.tours)
               THEN <<"tour_removed">> ELSE <<"tour_already_removed">>)
    [] btn.b = "fav:open" -> ButtonFavOpen(state, btn.n)
    [] btn.b = "fav:del" ->
         Reply([state EXCEPT
                  !.favorites = deleteCollection(@, btn.n).favorites],
               IF deleteCollection(state.favorites, btn.n).removed
               THEN <<"collection_deleted">>
               ELSE <<"collection_already_deleted">>)

(***************************************************************************)
(* The state machine.                                                      *)
(*   stateByChat  the ChatState of each conversation that has been seen;   *)
(*                st is the state of conversation ChatA                    *)
(*   llmActive    isLLMActive(): fixed by the environment of the process   *)
(*   voc          the vocabulary of the conversation                       *)
(*   inflight     the searches whose handler is suspended: at the backend  *)
(*                call (phase "call") or in the pause before the second    *)
(*                attempt (phase "sleep").  newer/cancelled remember that  *)
(*                a later search was started / a reset phrase was handled  *)
(*                while the search was in flight                           *)
(*   nextCall     the number of the next backend call; it is also the      *)
(*                requestid of the result                                  *)
(*   shown        the (requestid, hotel) cards sent so far                 *)
(*   pendingWantByKey, timers, now   the dedupe map of the "want" button,  *)
(*                its armed timers, the clock in ticks of TickMs           *)
(*   updates      the number of updates (messages, button presses) handled *)
(*   ev           the last update handled, the conversation it belongs to  *)
(*                and the replies it produced (and, for a "want", the time *)
(*                it was handled at)                                       *)
(* Keyboards stay in the chat, also across restarts of the process, so a   *)
(*   store        a favorites store of its own, with the last saveTour     *)
(*                applied to it (its argument and its result)              *)
(* button may be pressed in any state.  Replies are instantaneous.  The    *)
(* conversations of one run belong to one user: the user id of the key of *)
(* pendingWantByKey is the same in all of them, and the request ids of    *)
(* the backend depend on the request only, so a card of one conversation  *)
(* may carry the same callback data as a card of another.                 *)
(***************************************************************************)
VARIABLES stateByChat, llmActive, voc, inflight, nextCall, shown, pendingWantByKey,
          timers, now, updates, ev, leads, store, mock, cache, poll, norm,
          parsed

\* the bot
bot == <<stateByChat, llmActive, voc, inflight, nextCall, shown,
         pendingWantByKey, timers, now, updates, ev, leads>>

\* the modules exercised on their own
aside == <<store, mock, cache, poll, norm, parsed>>

vars == <<bot, aside>>

(***************************************************************************)
(* extractBudget called on its own with a text that names an amount.       *)
(***************************************************************************)
\* the amounts named, as they are and in thousands
MaxTarget == 60

\* extractBudget not called yet
Unparsed(text) == [text |-> text, called |-> FALSE, budget |-> NoBudget]

ExtractBudget ==
  /\ ~parsed.called
  /\ parsed' = [parsed EXCEPT !.called = TRUE,
                              !.budget = extractBudget(parsed.text)]
  /\ UNCHANGED <<bot, store, mock, cache, poll, norm>>

(***************************************************************************)
(* tourvisor.ts, normalize: the items of a backend payload made into tour  *)
(* results.  A value of an item is absent, a finite number, a string that  *)
(* reads as a number, or something else (null, NaN, a string that does not *)
(* read as a number); an item that is no object is null.  Of the alternate *)
(* keys the first two of the price and of the hotel id are carried.        *)
(***************************************************************************)
\* the items of a payload
MaxItems == 2

Val(kind, v) == [kind |-> kind, v |-> v]
Absent == Val("absent", 0)
Other == Val("other", 0)

Item(object, price, cost, hotelId, hid) ==
  [object |-> object, price |-> price, cost |-> cost,
   hotel_id |-> hotelId, hid |-> hid]

Items ==
  { Item(TRUE, price, cost, hotelId, hid) :
      price \in {Absent, Val("number", 0), Val("number", 500),
                 Val("string", 500), Other},
      cost \in {Absent, Val("number", 300)},
      hotelId \in {Absent, Val("number", 7), Other},
      hid \in {Absent, Val("string", 9)} }
  \cup {Item(FALSE, Absent, Absent, Absent, Absent)}

RECURSIVE pickFirst(_, _)
pickFirst(input, keys) ==
  IF ~input.object \/ keys = <<>> THEN Absent
  ELSE IF input[Head(keys)].kind # "absent" THEN input[Head(keys)]
  ELSE pickFirst(input, Tail(keys))

\* asNumber(value, 0): Number(value) of a string
asNumber(value) == IF value.kind \in {"number", "string"} THEN value.v ELSE 0

\* a normalize that keeps every object
normalizeUnfiltered(tours) ==
  LET objects == { k \in 1..Len(tours) : tours[k].object }
      mapped == [k \in 1..Len(tours) |->
                   [price |-> asNumber(pickFirst(tours[k], <<"price", "cost">>)),
                    hotel_id |-> asNumber(pickFirst(tours[k],
                                                    <<"hotel_id", "hid">>)),
                    raw |-> k]]
  IN SelectSeq(mapped, LAMBDA item : item.raw \in objects)

\* the results, raw being the place of the item in the payload
normalize(tours) ==
  LET objects == { k \in 1..Len(tours) : tours[k].object }
      mapped == [k \in 1..Len(tours) |->
                   [price |-> asNumber(pickFirst(tours[k], <<"price", "cost">>)),
                    hotel_id |-> asNumber(pickFirst(tours[k],
                                                    <<"hotel_id", "hid">>)),
                    raw |-> k]]
  IN SelectSeq(mapped, LAMBDA item : /\ item.raw \in objects
                                     /\ item.price > 0 /\ item.hotel_id > 0)

\* normalize is called with the payload
Normalize ==
  /\ ~norm.called
  /\ norm' = [norm EXCEPT !.called = TRUE, !.out = normalize(norm.tours)]
  /\ UNCHANGED <<bot, store, mock, cache, poll, parsed>>

\* normalize not called yet
Payloaded(tours) == [tours |-> tours, called |-> FALSE, out |-> <<>>]

(***************************************************************************)
(* tourvisor.ts, pollResults: the loop that fetches the result of a search *)
(* until it is reported complete or the ceiling has passed.  The function  *)
(* is followed from await to await; dateNow is Date.now().  A payload is   *)
(* the keys isDone reads, with n the fetch it came from (0: null, nothing  *)
(* fetched yet).                                                           *)
(***************************************************************************)
intervalMs == 1500
timeoutMs == 20000

\* how long a fetch takes: no time, a short time, a long time
FetchMs == 500
SlowFetchMs == 7000

Payload(n, finished, status) ==
  [n |-> n, finished |-> finished, status |-> status]

\* lastPayload = null
NoPayload == Payload(0, "absent", NoStr)

Payloads(n) ==
  { Payload(n, "true", NoStr), Payload(n, "false", "done"),
    Payload(n, "absent", "OK"), Payload(n, "absent", "pending"),
    Payload(n, "absent", NoStr) }

toLowerCase(s) == IF s = "OK" THEN "ok" ELSE s

\* the first of the keys finished, done, isFinished, status the payload has
isDone(payload) ==
  IF payload.finished # "absent" THEN payload.finished = "true"
  ELSE toLowerCase(payload.status) \in {"done", "finished", "ok"}

\* a loop that still fetches at the very end of the ceiling
FetchAtCeiling(now0) == now0 - poll.startedAt <= timeoutMs

\* while (Date.now() - startedAt < timeoutMs)
WithinCeiling(now0) == now0 - poll.startedAt < timeoutMs

NoResult == [timedOut |-> FALSE, polls |-> Undef, raw |-> NoPayload]

\* pollResults has been called; fetched and firstDone keep what the backend
\* answered, fetchAt the time the last fetch was started
PollStarted ==
  [pc |-> "while", startedAt |-> 0, dateNow |-> 0, polls |-> 0,
   lastPayload |-> NoPayload, result |-> NoResult,
   fetches |-> 0, fetched |-> NoPayload, firstDone |-> NoPayload,
   fetchAt |-> 0]

\* the loop condition, and what follows it up to the next await
PollLoop ==
  /\ poll.pc = "while"
  /\ poll' = IF WithinCeiling(poll.dateNow)
             THEN [poll EXCEPT !.pc = "fetch", !.polls = @ + 1,
                               !.fetches = @ + 1, !.fetchAt = poll.dateNow]
             ELSE [poll EXCEPT !.pc = "returned",
                     !.result = [timedOut |-> TRUE, polls |-> poll.polls,
                                 raw |-> poll.lastPayload]]
  /\ UNCHANGED <<bot, store, mock, cache, norm, parsed>>

\* await fetchResult(requestid) is over
FetchReturns(payload, ms) ==
  /\ poll.pc = "fetch"
  /\ poll' = [poll EXCEPT
                !.dateNow = @ + ms,
                !.lastPayload = payload,
                !.fetched = payload,
                !.firstDone = IF @ = NoPayload /\ isDone(payload)
                              THEN payload ELSE @,
                !.pc = IF isDone(payload) THEN "returned" ELSE "sleep",
                !.result = IF isDone(payload)
                           THEN [timedOut |-> FALSE, polls |-> poll.polls,
                                 raw |-> payload]
                           ELSE @]
  /\ UNCHANGED <<bot, store, mock, cache, norm, parsed>>

\* fetchResult throws (HTTP status, network): pollResults rejects
FetchThrows ==
  /\ poll.pc = "fetch"
  /\ poll' = [poll EXCEPT !.pc = "thrown"]
  /\ UNCHANGED <<bot, store, mock, cache, norm, parsed>>

\* the timer of intervalMs fires, on time or late
TimerFires(late) ==
  /\ poll.pc = "sleep"
  /\ poll' = [poll EXCEPT !.pc = "while", !.dateNow = @ + intervalMs + late]
  /\ UNCHANGED <<bot, store, mock, cache, norm, parsed>>

(***************************************************************************)
(* cache.ts: the cache of the tool results (index.ts: one TtlCache of      *)
(* 60 s for the search_tours handler).  data is the Map of the entries, a  *)
(* function of the keys that have one.                                     *)
(***************************************************************************)
CacheTtlMs == 60000

\* the ticks of the clock of the cache
MaxCacheTicks == 4

CacheKeys == {"a", "b"}
CacheValues == {1, 2}

\* an entry that is returned whatever its age
getNeverExpires(data, key, dateNow) ==
  IF key \notin DOMAIN data THEN [value |-> Undef, data |-> data]
  ELSE [value |-> data[key].value, data |-> data]

\* the value returned and the entries left
get(data, key, dateNow) ==
  IF key \notin DOMAIN data THEN [value |-> Undef, data |-> data]
  ELSE IF dateNow > data[key].expiresAt
    THEN [value |-> Undef,
          data |-> [k \in DOMAIN data \ {key} |-> data[k]]]
  ELSE [value |-> data[key].value, data |-> data]

set(data, key, value, dateNow, ttlMs) ==
  [k \in DOMAIN data \cup {key} |->
     IF k = key THEN [value |-> value, expiresAt |-> dateNow + ttlMs]
     ELSE data[k]]

\* the cache at start; stored keeps the last set of each key and its time
NoEntries ==
  [data |-> <<>>, stored |-> <<>>, ticks |-> 0,
   op |-> [kind |-> "none", key |-> NoStr, value |-> Undef]]

DateNow(c) == c.ticks * TickMs

CacheGet(key) ==
  LET got == get(cache.data, key, DateNow(cache))
  IN /\ cache' = [cache EXCEPT !.data = got.data,
                    !.op = [kind |-> "get", key |-> key, value |-> got.value]]
     /\ UNCHANGED <<bot, store, mock, poll, norm, parsed>>

CacheSet(key, value) ==
  /\ cache' = [cache EXCEPT
                 !.data = set(@, key, value, DateNow(cache), CacheTtlMs),
                 !.stored = [k \in DOMAIN @ \cup {key} |->
                               IF k = key
                               THEN [value |-> value, at |-> DateNow(cache)]
                               ELSE @[k]],
                 !.op = [kind |-> "set", key |-> key, value |-> value]]
  /\ UNCHANGED <<bot, store, mock, poll, norm, parsed>>

CacheTick ==
  /\ cache.ticks < MaxCacheTicks
  /\ cache' = [cache EXCEPT !.ticks = @ + 1,
                 !.op = [kind |-> "tick", key |-> NoStr, value |-> Undef]]
  /\ UNCHANGED <<bot, store, mock, poll, norm, parsed>>

(***************************************************************************)
(* mockSearch.ts: the synthetic backend.  A call is a pure function of its *)
(* input, of the current date (new Date() in buildTours) and of the image  *)
(* pool of the destination (read from the disk once, then cached).  Dates  *)
(* are day numbers, ratings are in tenths as everywhere else.  sha256 and  *)
(* sha1 are taken as injective: the seed is kept as the value hashed, the  *)
(* request id is the seed.  The generator is a bijection on its non-zero   *)
(* states, one draw per step; the draws of a tour that no filter looks at  *)
(* (operator, room, resort, hotel name) and the price factors that are the *)
(* same for all the tours of a market are left out.                        *)
(***************************************************************************)
MEAL_CODES == <<"RO", "BB", "HB", "FB", "AI">>

\* the market has MaxMarket - 2 .. MaxMarket tours
MaxMarket == 6
\* the page size of the calls
MockLimit == 2
\* the days the calls are made on
MaxDay == 2
\* the calls made with one input
MaxRepeats == 2

\* a meal is requested by its number or by its code, in any case
MealArg(n, s) == [n |-> n, s |-> s]
NoMeal == MealArg(0, NoStr)

toUpperCase(s) == IF s = "hb" THEN "HB" ELSE s

MealNumber(code) ==
  IF \E k \in 1..Len(MEAL_CODES) : MEAL_CODES[k] = code
  THEN CHOOSE k \in 1..Len(MEAL_CODES) : MEAL_CODES[k] = code
  ELSE 0

PeriodNumber(period) ==
  IF period = "next_month" THEN 1 ELSE IF period = "summer" THEN 2 ELSE 0

\* the value hashed: the explicit seed, or the search parameters (without
\* limit, offset and sort)
makeSeedFromInput(input) ==
  IF input.seed # Undef THEN [explicit |-> input.seed, payload |-> <<>>]
  ELSE [explicit |-> Undef,
        payload |-> <<input.date_from, input.date_to, input.country_id,
                      PeriodNumber(input.period),
                      input.nights_min, input.nights_max,
                      input.budget_max, input.budget_min, input.rating,
                      IF input.meal.s # NoStr
                      THEN 10 + MealNumber(toUpperCase(input.meal.s))
                      ELSE input.meal.n>>]

RECURSIVE Mix(_)
Mix(seq) ==
  IF seq = <<>> THEN 7 ELSE (Mix(Tail(seq)) * 31 + (Head(seq) % 9973)) % 9973

\* the first 32 bits of a digest of the seed and a label
hashToInt(seed, label) ==
  Mix(<<IF seed.explicit = Undef THEN 0 ELSE seed.explicit>>
      \o seed.payload \o label)

\* one generator for all the calls: it goes on where the last call left it
makeRngShared(seed, label) ==
  ((hashToInt(seed, label) + Len(mock.outputs)) % 96) + 1

\* a generator of its own for each call, started from the seed
makeRng(seed, label) == (hashToInt(seed, label) % 96) + 1

\* the state after n more draws
RECURSIVE Draw(_, _)
Draw(state, n) == IF n = 0 THEN state ELSE Draw((state * 5) % 97, n - 1)

\* rng() < pct / 100
Below(state, pct) == state * 100 < pct * 97

randomInt(state, min, max) == min + (state * (max - min + 1)) \div 97

clamp(n, min, max) == IF n < min THEN min ELSE IF n > max THEN max ELSE n

roundPrice(value, step) == ((2 * value + step) \div (2 * step)) * step

resolveEffectiveNightsRange(input) ==
  LET min == clamp(IF input.nights_min = Undef THEN DefaultNightsMin
                   ELSE input.nights_min, 1, MaxNights)
      max == clamp(IF input.nights_max = Undef THEN DefaultNightsMax
                   ELSE input.nights_max, 1, MaxNights)
  IN IF min > max THEN [min |-> max, max |-> min]
     ELSE [min |-> min, max |-> max]

normalizeMealFilter(meal) ==
  IF meal.s # NoStr
  THEN IF toUpperCase(meal.s) = "0" THEN NoStr ELSE toUpperCase(meal.s)
  ELSE IF meal.n >= 1 /\ meal.n <= Len(MEAL_CODES) THEN MEAL_CODES[meal.n]
  ELSE NoStr

normalizeSort(sort) == IF sort = "price_desc" THEN "price_desc" ELSE "price_asc"

normalizeLimit(limit) ==
  IF limit = Undef \/ limit <= 0 THEN 10 ELSE IF limit > 20 THEN 20 ELSE limit

normalizeOffset(offset) == IF offset = Undef \/ offset < 0 THEN 0 ELSE offset

\* the first and the last day of the departures
resolvePeriodDates(period, dateFrom, dateTo, today) ==
  IF period = "summer" THEN [fromDate |-> 152, toDate |-> 243]
  ELSE IF period = "next_month" THEN [fromDate |-> today, toDate |-> today + 30]
  ELSE [fromDate |-> dateFrom, toDate |-> dateTo]

\* tour i of the market, drawn from the generator state before it
MarketTour(input, today, i, state) ==
  LET dates == resolvePeriodDates(input.period, input.date_from,
                                  input.date_to, today)
      rangeDays == IF dates.toDate > dates.fromDate
                   THEN dates.toDate - dates.fromDate ELSE 0
      nightsRange == resolveEffectiveNightsRange(input)
      starRoll == Draw(state, 1)
      stars == IF Below(starRoll, 30) THEN 3
               ELSE IF Below(starRoll, 72) THEN 4 ELSE 5
      nights == IF i = 4 THEN clamp(8, nightsRange.min, nightsRange.max)
                ELSE randomInt(Draw(state, 2), nightsRange.min, nightsRange.max)
      startOffset == IF rangeDays > 0
                     THEN randomInt(Draw(state, 3), 0, rangeDays)
                     ELSE randomInt(Draw(state, 3), 0, 21)
      mealRoll == Draw(state, 4)
      meal == IF i < Len(MEAL_CODES) THEN MEAL_CODES[i + 1]
              ELSE IF Below(mealRoll, 14) THEN "RO"
              ELSE IF Below(mealRoll, 34) THEN "BB"
              ELSE IF Below(mealRoll, 62) THEN "HB"
              ELSE IF Below(mealRoll, 82) THEN "FB" ELSE "AI"
      ratingDraw == Draw(state, 5)
      rating == clamp(IF stars = 5 THEN 43 + randomInt(ratingDraw, 0, 7)
                      ELSE IF stars = 4 THEN 38 + randomInt(ratingDraw, 0, 9)
                      ELSE 30 + randomInt(ratingDraw, 0, 11), 30, 50)
      mealFactor == IF meal = "AI" THEN 120 ELSE IF meal = "FB" THEN 112
                    ELSE IF meal = "HB" THEN 107
                    ELSE IF meal = "BB" THEN 103 ELSE 98
      starFactor == IF stars = 5 THEN 150 ELSE IF stars = 4 THEN 120 ELSE 95
      noise == 90 + randomInt(Draw(state, 6), 0, 22)
      grossPrice ==
        ((((((((42000 * starFactor) \div 100) * mealFactor) \div 100)
             * (840 + nights * 75)) \div 1000) * noise) \div 100)
      price == roundPrice(grossPrice,
                          IF Below(Draw(state, 7), 20) THEN 10 ELSE 100)
  IN [hotel_id |-> 1000 + i, price |-> price, nights |-> nights,
      date_from |-> dates.fromDate + startOffset, stars |-> stars,
      meal |-> meal,
      rating |-> IF Below(Draw(state, 8), 6) THEN Undef ELSE rating,
      image_url |-> Undef]

RECURSIVE MarketFrom(_, _, _, _, _)
MarketFrom(input, today, i, size, state) ==
  IF i >= size THEN <<>>
  ELSE <<MarketTour(input, today, i, state)>>
       \o MarketFrom(input, today, i + 1, size, Draw(state, 8))

buildTours(input, seed, today) ==
  LET rng == makeRng(seed, <<1>>)
      marketSize == randomInt(Draw(rng, 1), MaxMarket - 2, MaxMarket)
  IN MarketFrom(input, today, 0, marketSize, Draw(rng, 1))

\* Array.prototype.sort with the comparator of the direction: stable
RECURSIVE InsertByPrice(_, _, _)
InsertByPrice(tour, sorted, sort) ==
  IF sorted = <<>> THEN <<tour>>
  ELSE IF (sort = "price_desc" /\ Head(sorted).price < tour.price)
          \/ (sort = "price_asc" /\ Head(sorted).price > tour.price)
    THEN <<tour>> \o sorted
  ELSE <<Head(sorted)>> \o InsertByPrice(tour, Tail(sorted), sort)

RECURSIVE SortByPrice(_, _)
SortByPrice(tours, sort) ==
  IF tours = <<>> THEN <<>>
  ELSE InsertByPrice(tours[Len(tours)],
                     SortByPrice(SubSeq(tours, 1, Len(tours) - 1), sort), sort)

\* filtered.slice(offset, offset + limit)
Slice(seq, offset, end) ==
  SubSeq(seq, offset + 1, IF end > Len(seq) THEN Len(seq) ELSE end)

\* the first free index of the pool from idx on, idx itself after a full turn
RECURSIVE FreeIndex(_, _, _, _)
FreeIndex(idx, used, poolSize, tries) ==
  IF idx \in used /\ tries < poolSize
  THEN FreeIndex((idx + 1) % poolSize, used, poolSize, tries + 1)
  ELSE idx

RECURSIVE ImagesFrom(_, _, _, _, _, _)
ImagesFrom(seed, offset, page, indexInPage, used, poolSize) ==
  IF indexInPage >= Len(page) THEN <<>>
  ELSE LET tour == page[indexInPage + 1]
           start == hashToInt(seed, <<2, offset>>) % poolSize
           spin == hashToInt(seed, <<tour.hotel_id, offset, indexInPage>>)
                     % poolSize
           first == (start + indexInPage + spin) % poolSize
           idx == IF poolSize >= Len(page)
                  THEN FreeIndex(first, used, poolSize, 0) ELSE first
       IN <<[tour EXCEPT !.image_url = idx]>>
          \o ImagesFrom(seed, offset, page, indexInPage + 1,
                        IF poolSize >= Len(page) THEN used \cup {idx} ELSE used,
                        poolSize)

assignImagesForPage(seed, offset, page, poolSize) ==
  IF poolSize = 0 THEN page
  ELSE ImagesFrom(seed, offset, page, 0, {}, poolSize)

\* a filter that lets the tours above the budget through
MatchesFiltersButBudget(tour, input) ==
  LET nightsRange == resolveEffectiveNightsRange(input)
      mealFilter == normalizeMealFilter(input.meal)
  IN /\ tour.nights >= nightsRange.min
     /\ tour.nights <= nightsRange.max
     /\ ~(input.budget_min > 0 /\ tour.price < input.budget_min)
     /\ (input.rating > 0
           => tour.rating # Undef /\ tour.rating >= input.rating)
     /\ (mealFilter # NoStr => tour.meal = mealFilter)

\* the tours a call keeps
MatchesFilters(tour, input) ==
  LET nightsRange == resolveEffectiveNightsRange(input)
      mealFilter == normalizeMealFilter(input.meal)
  IN /\ tour.nights >= nightsRange.min
     /\ tour.nights <= nightsRange.max
     /\ ~(input.budget_min > 0 /\ tour.price < input.budget_min)
     /\ ~(input.budget_max > 0 /\ tour.price > input.budget_max)
     /\ (input.rating > 0
           => tour.rating # Undef /\ tour.rating >= input.rating)
     /\ (mealFilter # NoStr => tour.meal = mealFilter)

\* generated.filter(...).sort(...)
FilteredMarket(input, today) ==
  SortByPrice(SelectSeq(buildTours(input, makeSeedFromInput(input), today),
                        LAMBDA tour : MatchesFilters(tour, input)),
              normalizeSort(input.sort))

mockSearchTours(input, today, poolSize) ==
  LET seed == makeSeedFromInput(input)
      limit == normalizeLimit(input.limit)
      offset == normalizeOffset(input.offset)
      page == Slice(FilteredMarket(input, today), offset, offset + limit)
  IN [requestid |-> seed,
      results |-> assignImagesForPage(seed, offset, page, poolSize)]

(***************************************************************************)
(* The backend called on its own: one input, called again and again while  *)
(* the days go by.                                                         *)
(***************************************************************************)
MockInput(seed, nights, budget, rating, meal, sort, offset, period) ==
  [seed |-> seed, date_from |-> 10, date_to |-> 40, country_id |-> Turkey,
   period |-> period, nights_min |-> nights[1], nights_max |-> nights[2],
   budget_min |-> budget[1], budget_max |-> budget[2], rating |-> rating,
   meal |-> meal, limit |-> MockLimit, offset |-> offset, sort |-> sort]

MockInputs ==
  { MockInput(seed, nights, budget, rating, meal, sort, offset, period) :
      seed \in {Undef, 1},
      nights \in {<<7, 7>>, <<7, 10>>, <<10, 7>>},
      budget \in {<<0, 0>>, <<0, 80000>>, <<60000, 0>>},
      rating \in {0, 40},
      meal \in {NoMeal, MealArg(0, "hb"), MealArg(5, NoStr)},
      sort \in {"price_asc", "price_desc"},
      offset \in {0, MockLimit},
      period \in {NoStr, "next_month"} }

\* the backend before its first call
NoCalls(input, poolSize) ==
  [input |-> input, today |-> 1, poolSize |-> poolSize, outputs |-> <<>>]

MockSearch ==
  /\ Len(mock.outputs) < MaxRepeats
  /\ mock' = [mock EXCEPT !.outputs =
                Append(@, [day |-> mock.today,
                           out |-> mockSearchTours(mock.input, mock.today,
                                                   mock.poolSize)])]
  /\ UNCHANGED <<bot, store, cache, poll, norm, parsed>>

Midnight ==
  /\ mock.today < MaxDay
  /\ mock' = [mock EXCEPT !.today = @ + 1]
  /\ UNCHANGED <<bot, store, cache, poll, norm, parsed>>

ChatA == 1
ChatB == 2

getState(chatId) ==
  IF chatId \in DOMAIN stateByChat THEN stateByChat[chatId] ELSE initial

st == getState(ChatA)

\* every conversation shares one state object
setStateShared(chatId, state) ==
  [c \in DOMAIN stateByChat \cup {chatId} |-> state]

\* stateByChat.set(chatId, ...) and the handler's writes to that object
setState(chatId, state) ==
  [c \in DOMAIN stateByChat \cup {chatId} |->
     IF c = chatId THEN state ELSE stateByChat[c]]

Event(type, text, btn, replies) ==
  [type |-> type, chat |-> Undef, failure |-> NoStr, text |-> text, btn |-> btn, out |-> replies,
   at |-> 0, started |-> 0, id |-> 0, hotel |-> Undef,
   delivered |-> FALSE, newer |-> FALSE, cancelled |-> FALSE]

NoBtn == Btn(NoStr, Undef, NoStr)

\* the event of a message or button press, with the failure of the
\* classifier its handling met, if any
UpdateEvent(r, type, text, btn) ==
  [Event(type, text, btn, r.out)
     EXCEPT !.failure = IF r.llm \in ClassifierFailures THEN r.llm ELSE NoStr]

\* the messages and buttons used below, by name
FullRequest(c) == Country(c) \o Nights(7) \o W("do") \o NumK(120)
NightsAndBudget == Nights(7) \o W("do") \o NumK(120)
\* "до X", "около X"
UpTo(x) == W("do") \o Num(x)
About(x) == W("okolo") \o Num(x)
\* "Турция за 100000"
AmbiguousBudget == Country(Turkey) \o W("za") \o Num(100000)

(***************************************************************************)
(* A conversation draws its messages and button presses from one           *)
(* vocabulary: the texts the user types, the buttons pressed (whatever the *)
(* state: old keyboards stay in the chat), which buttons of the cards sent *)
(* are used ("show more", "want", the favorites buttons), and the number   *)
(* of updates of the conversation.                                         *)
(***************************************************************************)
Vocabulary(name, texts, buttons, cards, depth) ==
  [name |-> name, texts |-> texts, buttons |-> buttons,
   more |-> "more" \in cards, want |-> "want" \in cards,
   fav |-> "fav" \in cards, depth |-> depth]

Retry == Btn("retry", 0, NoStr)

Vocabularies ==
  { \* free-text search, refinements, show more
    Vocabulary("search",
               {FullRequest(Turkey), Month(5), Nights(10), W("cancel")},
               {Retry}, {"more"}, MaxUpdates),
    \* slot filling by text
    Vocabulary("slots",
               {FullRequest(Turkey), NightsAndBudget, Country(Egypt),
                W("cancel")}, {}, {}, MaxUpdates),
    \* slot filling by buttons
    Vocabulary("aibuttons", {Country(Egypt), Num(7), Num(120000)},
               {Btn("ai:cancel", 0, NoStr), Btn("ai:nights", 7, NoStr),
                Btn("ai:budget", 100000, NoStr),
                Btn("ai:country", Egypt, NoStr)}, {}, MaxUpdates),
    \* the guided flow
    Vocabulary("guided", {},
               {Btn("country", Egypt, NoStr), Btn("budget", 100000, NoStr),
                Btn("rating", Undef, NoStr), Btn("period", 0, "summer"),
                Btn("meal", 0, "AI")}, {}, MaxUpdates),
    \* the guided flow with a typed budget
    Vocabulary("budget", {W("other"), Num(120000)},
               {Btn("country", Egypt, NoStr), Btn("budget", Undef, NoStr)},
               {}, MaxUpdates),
    \* choosing a tour
    Vocabulary("want", {FullRequest(Turkey), W("cancel")},
               {Retry}, {"want"}, MaxUpdates),
    \* leaving a phone number for a tour of the results or of the favorites
    Vocabulary("lead", {W("cancel"), Phone(7999123)},
               {Retry}, {"want", "fav"}, MaxLeadUpdates),
    \* saving tours and collections between searches, refinements and resets
    Vocabulary("favorites",
               {W("yes"), W("clearfavs"), W("cancel"),
                FullRequest(Turkey), Nights(10)},
               {Btn("new", 0, NoStr), Btn("/start", 0, NoStr),
                Btn("fav:save_collection", 0, NoStr),
                Btn("fav:list", 0, NoStr), Btn("fav:clear", 0, NoStr)},
               {"fav", "more", "want"}, MaxUpdates),
    \* chatter during a flow, unsupported destinations
    Vocabulary("chatter",
               {W("cancel"), W("thanks"), W("hello"), AmbiguousBudget,
                FullRequest(Turkey) \o W("unsup")}, {}, {}, MaxUpdates),
    \* changing the country of the last search
    Vocabulary("switch",
               {FullRequest(Turkey), Country(Egypt), Nights(10)},
               {Retry}, {"want"}, MaxUpdates),
    \* answering the max-or-target question about a budget
    Vocabulary("clarify", {AmbiguousBudget, UpTo(100000), About(100000)},
               {}, {}, MaxUpdates),
    \* a cancel phrase in each state of the conversation
    Vocabulary("cancel", {W("cancel"), AmbiguousBudget},
               {Retry, Btn("country", Egypt, NoStr), Btn("budget", Undef, NoStr),
                Btn("fav:save_collection", 0, NoStr)},
               {"want", "more"}, MaxUpdates) }

Texts == voc.texts

Chats == IF voc.name = "chats" THEN {ChatA, ChatB} ELSE {ChatA}

\* the backend calls of a conversation: a refinement of the second page of
\* a search is the third call
Calls == IF voc.name = "refine" THEN MaxCalls + 1 ELSE MaxCalls

\* the buttons of the keyboards in the chat: those of the vocabulary, those
\* of the cards sent and those of the saved collections
Buttons(chat) ==
  voc.buttons
  \cup (IF voc.more
        THEN { Btn("more", c.req, NoStr) :
               c \in { d \in shown : d.req # FavoritesListId } }
        ELSE {})
  \cup (IF voc.fav
        THEN { Btn(IF c.req = FavoritesListId THEN "fav:remove"
                   ELSE "fav:tour", c.hotel, NoStr) : c \in shown }
             \cup { Btn(b, id, NoStr) :
                    b \in {"fav:open", "fav:del"},
                    id \in 1..getState(chat).favoritesSeq }
        ELSE {})

\* the store before its first saveTour
NoSaves ==
  [favorites |-> createEmptyFavorites, saves |-> 0,
   tour |-> FavoriteTour(0), added |-> FALSE]

InitBot(vocabularies) ==
  /\ stateByChat = <<>>
  /\ llmActive \in BOOLEAN
  /\ voc \in vocabularies
  /\ inflight = {}
  /\ nextCall = 1
  /\ shown = {}
  /\ pendingWantByKey = {}
  /\ timers = {}
  /\ now = 0
  /\ updates = 0
  /\ ev = Event("init", <<>>, NoBtn, <<>>)
  /\ leads = <<>>

InitWith(vocabularies) ==
  /\ InitBot(vocabularies)
  /\ store = NoSaves
  /\ norm = Payloaded(<<>>)
  /\ parsed = Unparsed(<<>>)
  /\ mock = NoCalls(MockInput(Undef, <<7, 7>>, <<0, 0>>, 0, NoMeal,
                              "price_asc", 0, NoStr), 0)
  /\ cache = NoEntries
  /\ poll = PollStarted

Init == InitWith(Vocabularies)

\* what the conversation holds of its last executed search
LastSearch(state) ==
  [lastSearchArgs |-> state.lastSearchArgs, lastResults |-> state.lastResults,
   lastRequestId |-> state.lastRequestId, offset |-> state.offset]

\* the handler has run up to its backend call, or to its end; a call in
\* flight remembers the last executed search its handler found on entry
Handled(chat, r, type, text, btn, isCancel) ==
  /\ updates < voc.depth
  /\ updates' = updates + 1
  /\ r.call.kind # "none" => nextCall <= Calls
  /\ stateByChat' = setState(chat, r.st)
  /\ IF r.call.kind = "none"
     THEN /\ inflight' = { [c EXCEPT !.cancelled =
                                       @ \/ (isCancel /\ c.chat = chat)] :
                           c \in inflight }
          /\ nextCall' = nextCall
          /\ ev' = [UpdateEvent(r, type, text, btn) EXCEPT !.chat = chat]
     ELSE /\ inflight' = { [c EXCEPT !.newer = @ \/ c.chat = chat] :
                           c \in inflight }
                         \cup { [id |-> nextCall, chat |-> chat,
                                 seq |-> r.call.seq,
                                 args |-> r.call.args, kind |-> r.call.kind,
                                 tail |-> r.call.tail,
                                 draft |-> r.call.draft, attempt |-> 1,
                                 phase |-> "call", newer |-> FALSE,
                                 cancelled |-> FALSE,
                                 before |-> LastSearch(getState(chat))] }
          /\ nextCall' = nextCall + 1
          /\ ev' = [UpdateEvent(r, type, text, btn)
                      EXCEPT !.chat = chat, !.started = 1, !.id = nextCall]
  /\ shown' = shown \cup r.cards
  /\ leads' = leads \o r.leads
  /\ UNCHANGED <<aside, llmActive, voc, pendingWantByKey, timers, now>>

Text(chat, text) ==
  \E intent \in Intents :
    Handled(chat, OnText(getState(chat), text, llmActive, intent),
            "text", text, NoBtn, isCancelText(text))

Button(chat, btn) ==
  Handled(chat, OnButton(getState(chat), btn), "button", <<>>, btn,
          btn.b \in {"ai:cancel", "/cancel"})

\* the end of a handler that awaited runSearchWithRetry
AfterSearch(state, tail) ==
  IF tail = "ai"
  THEN [state EXCEPT !.aiMode = FALSE, !.aiDraft = NoArgs, !.aiAwaiting = NoStr]
  ELSE state

Hotel(args) == args.country_id

\* callSearchTours returns a page of results: the rest of runSearch and of
\* the handler that awaited it
SearchReturns(c) ==
  LET state == getState(c.chat)
      stale == isSearchSeqStale(state, c.seq)
      s1 == IF stale THEN state ELSE sendCards(state, c.id, {Hotel(c.args)})
  IN /\ c.phase = "call"
     /\ stateByChat' = setState(c.chat, AfterSearch(s1, c.tail))
     /\ inflight' = inflight \ {c}
     /\ shown' = IF stale THEN shown
                 ELSE shown \cup {[req |-> c.id, hotel |-> Hotel(c.args)]}
     /\ ev' = [Event("result", <<>>, NoBtn,
                     IF stale THEN <<>> ELSE <<"cards", "actions">>)
                 EXCEPT !.chat = c.chat, !.id = c.id, !.delivered = ~stale,
                        !.newer = c.newer, !.cancelled = c.cancelled]
     /\ UNCHANGED <<aside, llmActive, voc, nextCall, pendingWantByKey, timers, now, updates,
                 leads>>

\* callSearchTours throws (HTTP error, tool error, timeout)
SearchFails(c) ==
  /\ c.phase = "call"
  /\ IF c.kind = "retry" /\ c.attempt = 1
     THEN /\ inflight' = (inflight \ {c}) \cup {[c EXCEPT !.phase = "sleep"]}
          /\ stateByChat' = stateByChat
          /\ ev' = [Event("failure", <<>>, NoBtn, <<>>)
                      EXCEPT !.chat = c.chat, !.id = c.id]
     ELSE /\ inflight' = inflight \ {c}
          /\ stateByChat' =
               IF c.kind = "retry"
               THEN setState(c.chat, AfterSearch(getState(c.chat), c.tail))
               ELSE stateByChat
          /\ ev' = [Event("failure", <<>>, NoBtn,
                          IF c.kind = "retry" THEN <<"search_error">> ELSE <<>>)
                      EXCEPT !.chat = c.chat, !.id = c.id]
  /\ UNCHANGED <<aside, llmActive, voc, nextCall, shown, pendingWantByKey, timers, now,
                 updates,
                 leads>>

\* runSearchWithRetry: the pause is over, runSearch is called a second time
SearchRetries(c) ==
  LET r == runSearch(getState(c.chat))
  IN /\ c.phase = "sleep"
     /\ stateByChat' = setState(c.chat, r.st)
     /\ inflight' = (inflight \ {c})
                    \cup {[c EXCEPT !.phase = "call", !.attempt = 2,
                                    !.seq = r.seq, !.args = r.args]}
     /\ ev' = [Event("retry", <<>>, NoBtn, <<>>)
                 EXCEPT !.chat = c.chat, !.id = c.id]
     /\ UNCHANGED <<aside, llmActive, voc, nextCall, shown, pendingWantByKey, timers, now,
                 updates,
                 leads>>

\* the entries of pendingWantByKey under the key of a card
WantEntries(c) ==
  { k \in pendingWantByKey : k.req = c.req /\ k.hotel = c.hotel }

\* a handler without the dedupe window
WantPendingNever(c) == FALSE

\* pendingAt && now - pendingAt < 45_000
WantPending(c) ==
  \E k \in WantEntries(c) : (now - k.at) * TickMs < WantWindowMs

\* bot.action(/^want:.../): the "want this tour" button of a card
Want(chat, c) ==
  LET state == getState(chat)
      selected == findTourForWantAction(state, c.hotel)
      e == [Event("want", <<>>, Btn("want", c.req, NoStr), <<>>)
              EXCEPT !.chat = chat, !.hotel = c.hotel, !.at = now]
      entry == [req |-> c.req, hotel |-> c.hotel, at |-> now]
  IN /\ c \in shown
     /\ voc.want
     /\ updates < voc.depth
     /\ updates' = updates + 1
     /\ IF WantPending(c)
        THEN /\ ev' = [e EXCEPT !.out = <<"already_checking">>]
             /\ UNCHANGED <<stateByChat, pendingWantByKey, timers>>
        ELSE /\ timers' = timers \cup {entry}
             /\ IF selected = Undef
                THEN /\ pendingWantByKey' = pendingWantByKey \ WantEntries(c)
                     /\ ev' = [e EXCEPT !.out = <<"tour_not_found">>]
                     /\ stateByChat' = stateByChat
                ELSE IF isSamePendingHotel(state, c.hotel)
                        /\ state.phonePromptShownForHotelId = c.hotel
                THEN /\ pendingWantByKey' = pendingWantByKey \ WantEntries(c)
                     /\ ev' = [e EXCEPT !.out = <<"phone_hint">>]
                     /\ stateByChat' = stateByChat
                ELSE /\ pendingWantByKey' =
                          (pendingWantByKey \ WantEntries(c)) \cup {entry}
                     /\ ev' = [e EXCEPT !.out = <<"checking", "recap",
                                                  "leave_phone", "phone_hint">>]
                     /\ stateByChat' =
                          setState(chat,
                            [state EXCEPT
                               !.pendingHotel = selected,
                               !.step = "await_phone",
                               !.phonePromptShownForHotelId = c.hotel])
     /\ UNCHANGED <<aside, llmActive, voc, inflight, nextCall, shown, now, leads>>

TimerDue(t) == now * TickMs >= t.at * TickMs + WantTimerMs

\* the setTimeout callback of the "want" handler
WantTimer(t) ==
  /\ t \in timers
  /\ TimerDue(t)
  /\ timers' = timers \ {t}
  /\ pendingWantByKey' = pendingWantByKey \ {t}
  /\ ev' = Event("timer", <<>>, NoBtn, <<>>)
  /\ UNCHANGED <<aside, stateByChat, llmActive, voc, inflight, nextCall, shown, now, updates,
                 leads>>

\* time passes; a timer that is due runs before the clock moves on
Tick ==
  /\ timers # {}
  /\ now < MaxTime
  /\ \A t \in timers : ~TimerDue(t)
  /\ now' = now + 1
  /\ UNCHANGED <<aside, stateByChat, llmActive, voc, inflight, nextCall, shown, pendingWantByKey,
                 timers, updates, ev,
                 leads>>

Next ==
  \/ \E chat \in Chats, text \in Texts : Text(chat, text)
  \/ \E chat \in Chats : \E btn \in Buttons(chat) : Button(chat, btn)
  \/ \E c \in inflight : SearchReturns(c)
  \/ \E c \in inflight : SearchFails(c)
  \/ \E c \in inflight : SearchRetries(c)
  \/ \E chat \in Chats, c \in shown : Want(chat, c)
  \/ \E t \in timers : WantTimer(t)
  \/ Tick

Spec == Init /\ [][Next]_vars

\* the conversations in which tours are chosen
InitWant == Init /\ voc.name = "want"

SpecWant == InitWant /\ [][Next]_vars

\* the conversations that cancel
InitCancel == Init /\ voc.name = "cancel"

SpecCancel == InitCancel /\ [][Next]_vars

\* the conversations that use the favorites
InitFav == Init /\ voc.name = "favorites"

SpecFav == InitFav /\ [][Next]_vars

\* the conversations that change the country of the last search
InitSwitch == Init /\ voc.name = "switch"

SpecSwitch == InitSwitch /\ [][Next]_vars

(***************************************************************************)
(* The properties.  An update is a step that increases `updates`; the      *)
(* update handled by a step is ev', the state it found is st.              *)
(***************************************************************************)
Update == updates' = updates + 1

\* C1: when the result of a search arrives after a later search of the same
\* conversation was started, it is discarded: no cards are sent and
\* lastRequestId / lastResults are not set from it.
C1_StaleResultDiscarded ==
  (ev.type = "result" /\ ev.newer) =>
    (~ev.delivered /\ st.lastRequestId # ev.id)

\* C2: when the result of a search arrives after a reset/cancel phrase was
\* handled while the search was in flight, it is discarded, whatever the user
\* did after the reset.
C2_CancelledResultDiscarded ==
  (ev.type = "result" /\ ev.cancelled) =>
    (~ev.delivered /\ st.lastRequestId # ev.id)

\* C3: a search is executed from the slot-filling draft only when the draft
\* has a country (and nights, and a positive budget).
C3_DraftSearchHasCountry ==
  \A c \in inflight :
    c.tail = "ai" =>
      hasCountry(c.draft) /\ hasNights(c.draft) /\ hasBudget(c.draft)

\* C4: a search executed from a draft whose country was given by name only
\* is a search for that country, not for a default one.
C4_NamedCountrySearched ==
  \A c \in inflight :
    (c.tail = "ai" /\ c.attempt = 1 /\ c.draft.country_id = Undef
       /\ c.draft.country_name # NoStr)
    => c.args.country_id = COUNTRY_TO_ID(c.draft.country_name)

CompleteDraft(state) ==
  /\ state.aiDraft.def
  /\ hasCountry(state.aiDraft)
  /\ hasNights(state.aiDraft)
  /\ hasBudget(state.aiDraft)

\* C5: an update that completes the slot-filling draft (country, nights and
\* budget all present) starts a search in the same turn, whichever slot came
\* last: the conversation does not stay in slot-filling mode with a complete
\* draft and no search.
C5_CompleteDraftSearches ==
  [][(Update /\ st.aiMode /\ ~CompleteDraft(st)
        /\ st'.aiMode /\ CompleteDraft(st'))
     => ev'.started = 1]_vars

\* a slot prompt of the slot-filling flow is pending
AiPromptPending(state) ==
  /\ state.aiMode
  /\ state.step = "idle"
  /\ state.aiAwaiting \in {"country", "nights", "budget"}
  /\ state.pendingBudgetClarification.mode = NoStr

\* the message names a country, a night count and a budget
CarriesAllSlots(text) ==
  /\ normalizeCountryName(text) # NoStr
  /\ extractNights(text) # Undef
  /\ extractBudget(text).type # "none"

SlotPrompts == {"ask_ai_country", "ask_ai_nights", "ask_ai_budget"}
Rejections == {"nights_range", "budget_example"}
Tags(out) == { out[i] : i \in 1..Len(out) }

\* C6: a message that answers a pending slot prompt and carries country,
\* nights and budget together is merged whole: the bot neither prompts for
\* one of these slots nor rejects the message.
C6_AllSlotsMerged ==
  [][(Update /\ ev'.type = "text" /\ AiPromptPending(st)
        /\ CarriesAllSlots(ev'.text))
     => Tags(ev'.out) \cap (SlotPrompts \cup Rejections) = {}]_vars

\* a targeted prompt is pending: a slot prompt of the slot-filling flow, a
\* typed custom value of it, or the custom budget of the guided flow
PromptPending(state) ==
  \/ AiPromptPending(state)
  \/ /\ state.step \in {"budget_input", "ai_nights_input", "ai_budget_input"}
     /\ state.pendingBudgetClarification.mode = NoStr

Reprompts ==
  SlotPrompts \cup Rejections \cup {"enter_amount", "unsupported_country"}

\* C7: a reply to a pending targeted prompt that does not parse as the slot
\* (here "не знаю") leaves the draft, the awaited slot and the flow mode
\* as they were, and the prompt is issued again.
C7_UnparseableReplyReprompts ==
  [][(Update /\ ev'.type = "text" /\ ev'.text = W("other")
        /\ PromptPending(st))
     => /\ st'.aiDraft = st.aiDraft
        /\ st'.aiAwaiting = st.aiAwaiting
        /\ st'.aiMode = st.aiMode
        /\ st'.step = st.step
        /\ Tags(ev'.out) \cap Reprompts # {}]_vars

\* the fields of a specification a refinement by nights (by month) must keep
KeptByNights ==
  {"country_id", "date_from", "date_to", "budget_min", "budget_max", "meal",
   "rating", "sort"}
KeptByMonth ==
  {"country_id", "nights_min", "nights_max", "budget_min", "budget_max",
   "meal", "rating", "sort"}

SameOn(a, b, fields) == \A f \in fields : a[f] = b[f]

\* the update refines the last executed specification
Refines ==
  /\ Update /\ ev'.type = "text" /\ ev'.started = 1
  /\ ev'.out = <<"updating">>
  /\ st.pendingBudgetClarification.mode = NoStr
  /\ st.lastSearchArgs.def

\* C8: a refinement that mentions only a night count, or only a month,
\* changes only those fields (and the offset) of the last executed
\* specification; budget_min and budget_max in particular stay as they were.
C8_RefinementKeepsOtherFields ==
  [][/\ (Refines /\ \E n \in 1..MaxNights : ev'.text = Nights(n))
          => SameOn(st'.lastSearchArgs, st.lastSearchArgs, KeptByNights)
     /\ (Refines /\ \E m \in 1..12 : ev'.text = Month(m))
          => SameOn(st'.lastSearchArgs, st.lastSearchArgs, KeptByMonth)]_vars

SpecificationFields ==
  {"country_id", "date_from", "date_to", "nights_min", "nights_max",
   "budget_min", "budget_max", "meal", "rating", "sort"}

\* the update is "show more", by button or typed, and starts a search
ShowsMore ==
  /\ Update /\ ev'.started = 1
  /\ \/ ev'.type = "button" /\ ev'.btn.b = "more"
     \/ ev'.type = "text" /\ ev'.text = W("more")

\* C9: "show more" executes the last executed specification again with
\* every field unchanged except the offset, which grows by the page size.
C9_ShowMoreKeepsSpecification ==
  [][(ShowsMore /\ st.lastSearchArgs.def)
     => /\ SameOn(st'.lastSearchArgs, st.lastSearchArgs, SpecificationFields)
        /\ st'.lastSearchArgs.offset = st.lastSearchArgs.offset + st.limit]_vars

\* the card a "want" update was about
Card(e) == [req |-> e.btn.n, hotel |-> e.hotel]

WantUpdate == Update /\ ev'.type = "want"

\* the update is a "want" that follows an identical one within the window
SecondWant ==
  /\ WantUpdate
  /\ ev.type = "want"
  /\ Card(ev') = Card(ev)
  /\ (now - ev.at) * TickMs < WantWindowMs

\* C10 as stated: of two identical "want" actions within the dedupe window
\* the first leaves the conversation at await_phone with the tour pinned,
\* the second only answers "already checking" and changes no state.
C10_DoubleWantStartsOnce ==
  [][(SecondWant /\ ev.out # <<"already_checking">>)
     => /\ st.step = "await_phone" /\ st.pendingHotel = ev.hotel
        /\ ev'.out = <<"already_checking">>
        /\ st' = st]_vars

\* C10 amended: a "want" for a tour that is among the current results, is
\* not already pinned with the phone prompt shown and is not a repetition
\* within the window starts the booking flow (await_phone, tour pinned); an
\* identical "want" within the window of one that started the flow only
\* answers "already checking" and changes no state.
C10_DedupeAfterFlowStart ==
  [][/\ (WantUpdate
           /\ findTourForWantAction(st, ev'.hotel) # Undef
           /\ ~(isSamePendingHotel(st, ev'.hotel)
                  /\ st.phonePromptShownForHotelId = ev'.hotel)
           /\ ~\E k \in pendingWantByKey :
                 /\ k.req = ev'.btn.n /\ k.hotel = ev'.hotel
                 /\ (now - k.at) * TickMs < WantWindowMs)
        => /\ st'.step = "await_phone" /\ st'.pendingHotel = ev'.hotel
           /\ "checking" \in Tags(ev'.out)
     /\ (SecondWant /\ "checking" \in Tags(ev.out))
        => /\ ev'.out = <<"already_checking">>
           /\ st' = st
           /\ pendingWantByKey' = pendingWantByKey]_vars

\* the second of two identical "want" actions has been answered with
\* "already checking" while the tour of the first is pinned
C10_SecondWantDeduped ==
  /\ ev.type = "want"
  /\ ev.out = <<"already_checking">>
  /\ st.step = "await_phone"
  /\ st.pendingHotel = ev.hotel
  /\ st.phonePromptShownForHotelId = ev.hotel

\* the update is a valid phone number accepted while a phone is awaited: the
\* user is thanked and the conversation is idle again
PhoneAccepted ==
  /\ Update /\ ev'.type = "text"
  /\ st.step = "await_phone"
  /\ normalizePhone(ev'.text).ok
  /\ "thanks_checking" \in Tags(ev'.out)
  /\ st'.step = "idle"

\* the record the update appended to the leads
LastLead == leads'[Len(leads')]

\* C11: a valid phone accepted in await_phone appends exactly one lead
\* record, with the hotel id of the pinned tour and the normalized phone,
\* wherever the tour was chosen from (results or favorites) and also after
\* a reset has cleared the last results.
C11_AcceptedPhoneRecordsLead ==
  [][PhoneAccepted
     => /\ Len(leads') = Len(leads) + 1
        /\ LastLead.hotel_id = st.pendingHotel
        /\ LastLead.phone_number = normalizePhone(ev'.text).phone]_vars

\* the update before this one was the "want" that pinned the tour
PinnedByLastWant ==
  /\ ev.type = "want"
  /\ "checking" \in Tags(ev.out)
  /\ st.pendingHotel = ev.hotel

\* C12: the lead recorded for a pinned tour carries the request id of the
\* "want" action that pinned it, whatever lastRequestId is when the phone
\* arrives.
C12_LeadCarriesWantRequestId ==
  [][(PhoneAccepted /\ PinnedByLastWant /\ Len(leads') = Len(leads) + 1)
     => LastLead.requestid = ev.btn.n]_vars

\* the update is a cancel/reset phrase
CancelUpdate == Update /\ ev'.type = "text" /\ isCancelText(ev'.text)

\* the conversation after a reset: nothing collected, nothing pinned,
\* nothing pending, first page
ResetLeaves(state) ==
  /\ state.step = "idle"
  /\ state.aiDraft = NoArgs
  /\ state.budgetMax = Undef /\ state.budgetMin = Undef
  /\ ~state.budgetChosen
  /\ state.ratingMin = Undef /\ ~state.ratingChosen
  /\ state.period = NoStr
  /\ state.meal = "ANY" /\ ~state.mealChosen
  /\ state.nightsMin = DefaultNightsMin /\ state.nightsMax = DefaultNightsMax
  /\ state.pendingHotel = Undef
  /\ state.phonePromptShownForHotelId = Undef
  /\ state.pendingBudgetClarification = NoClarification
  /\ state.pendingPromptAction = NoStr
  /\ state.offset = 0

FavoritesButtons ==
  {"fav:tour", "fav:remove", "fav:save_collection", "fav:del", "fav:clear"}

FavoritesAction ==
  /\ Update
  /\ \/ ev'.type = "button" /\ ev'.btn.b \in FavoritesButtons
     \/ ev'.type = "text" /\ detectCommand(ev'.text) = "CLEAR_FAVORITES"

\* C14: the favorites (saved tours and collections) change only through
\* save-tour, remove-tour, save-collection, delete-collection and
\* clear-favorites; every other step (reset, cancel, /start, new search,
\* search execution and result, refinement, show more, want, phone) leaves
\* them as they were.
C14_FavoritesChangeOnlyExplicitly ==
  [][st'.favorites # st.favorites => FavoritesAction]_vars

\* a reset phrase has been handled in a conversation with a saved tour and a
\* saved collection, which are still there
C14_FavoritesSurviveReset ==
  /\ ev.type = "text" /\ isCancelText(ev.text)
  /\ st.lastResults = {}
  /\ st.favorites.tours # <<>>
  /\ st.favorites.collections # {}

\* a draft is being collected: a slot of the slot-filling flow or the custom
\* budget of the guided flow is awaited
Collecting(state) ==
  \/ state.aiMode /\ state.aiAwaiting # NoStr
  \/ state.step = "budget_input"

\* a tour is pinned and the phone number is awaited
AwaitingPhone(state) ==
  state.step = "await_phone" /\ state.pendingHotel # Undef

PendingPrompts ==
  SlotPrompts
  \cup {"ask_budget_text", "write_budget", "max_or_target", "phone_hint",
        "invalid_phone"}

\* the draft and the choices of the guided flow, the awaited slot, the pinned
\* tour and the last search are the same in both states
SameFlow(a, b) ==
  /\ a.aiDraft = b.aiDraft /\ a.aiAwaiting = b.aiAwaiting
  /\ a.aiMode = b.aiMode /\ a.step = b.step
  /\ a.pendingBudgetClarification = b.pendingBudgetClarification
  /\ a.countryId = b.countryId /\ a.budgetMax = b.budgetMax
  /\ a.pendingHotel = b.pendingHotel
  /\ a.lastSearchArgs = b.lastSearchArgs
  /\ a.lastRequestId = b.lastRequestId /\ a.lastResults = b.lastResults

\* the update is a smalltalk message (thanks, ok, greeting)
SmalltalkUpdate == Update /\ ev'.type = "text" /\ detectSmalltalk(ev'.text)

\* C15: a smalltalk message received while a draft is being collected or
\* while a tour is pinned awaiting a phone leaves the draft, the awaited
\* slot, the pinned tour and the last search unchanged, starts no search, and
\* the bot re-issues the pending prompt after the acknowledgement.
C15_SmalltalkKeepsFlowAndReprompts ==
  [][(SmalltalkUpdate /\ (Collecting(st) \/ AwaitingPhone(st)))
     => /\ SameFlow(st', st)
        /\ ev'.started = 0
        /\ Tags(ev'.out) \cap PendingPrompts # {}]_vars

\* the country a message names
NamedCountryId(text) ==
  IF normalizeCountryName(text) = NoStr THEN Undef
  ELSE COUNTRY_TO_ID(normalizeCountryName(text))

\* messages are read as refinements of the last search: a classifier is
\* configured, the conversation is idle with a last specification, and
\* nothing is awaited
RefinementsAccepted(state) ==
  /\ llmActive
  /\ state.step = "idle"
  /\ state.lastSearchArgs.def
  /\ ~(state.aiMode /\ state.aiAwaiting # NoStr)
  /\ state.pendingBudgetClarification.mode = NoStr

\* the update is a follow-up that names a supported country other than the
\* country of the last specification
CountrySwitch ==
  /\ Update /\ ev'.type = "text"
  /\ RefinementsAccepted(st)
  /\ NamedCountryId(ev'.text) # Undef
  /\ NamedCountryId(ev'.text) # st.lastSearchArgs.country_id
  /\ detectBudgetTargetQuestion(ev'.text) = Undef

CallFails(c) ==
  /\ c \in inflight /\ c.phase = "call" /\ c \notin inflight'
  /\ ev'.type = "failure" /\ ev'.id = c.id

\* C17: when a search call fails the whole search is retried exactly once
\* more; when the second call fails too, exactly one "search unavailable"
\* message is sent.  This holds on every path that executes a search, and a
\* user action makes at most two backend calls.
C17_FailedSearchRetriedOnce ==
  [][\A c \in inflight :
       CallFails(c) =>
         /\ c.attempt \in {1, 2}
         /\ c.attempt = 1 =>
              /\ \E d \in inflight' : d.id = c.id /\ d.phase = "sleep"
              /\ ev'.out = <<>>
         /\ c.attempt = 2 =>
              /\ ~\E d \in inflight' : d.id = c.id
              /\ ev'.out = <<"search_error">>]_vars

\* the message mentions an unsupported destination
MentionsUnsupported(text) == Has(text, "unsup")

\* C18: a message that mentions an unsupported destination is answered as
\* unsupported_country and never starts a search, whatever else it contains
\* (a supported destination, nights, a budget).
C18_UnsupportedNeverSearches ==
  [][(Update /\ ev'.type = "text" /\ MentionsUnsupported(ev'.text))
     => /\ ev'.started = 0
        /\ "unsupported_country" \in Tags(ev'.out)]_vars

\* the conversation is idle and nothing is pending: no slot, no
\* clarification, no yes/no prompt, no pinned tour
IdleNothingPending(state) ==
  /\ state.step = "idle"
  /\ ~state.aiMode /\ state.aiAwaiting = NoStr
  /\ state.pendingBudgetClarification.mode = NoStr
  /\ state.pendingPromptAction = NoStr
  /\ state.pendingHotel = Undef

\* the message is a complete request by the rules: a supported country and
\* no unsupported one, a night count, a positive "up to" budget
CompleteRequest(text) ==
  /\ CarriesAllSlots(text)
  /\ ~MentionsUnsupported(text)
  /\ extractBudget(text).type = "max" /\ extractBudget(text).max > 0

GuidedPrompts == {"ask_country", "ask_budget", "ask_quality", "ask_period",
                  "ask_meal"}

\* C19: a message with country, nights and a positive budget received while
\* idle with nothing pending starts exactly one search in that turn, with
\* those three values, and sends no slot prompt; afterwards nothing is
\* awaited.
C19_CompleteRequestSearchesAtOnce ==
  [][(Update /\ ev'.type = "text" /\ IdleNothingPending(st)
        /\ CompleteRequest(ev'.text))
     => /\ ev'.started = 1
        /\ \E c \in inflight' :
             /\ c.id = ev'.id
             /\ c.args.country_id = NamedCountryId(ev'.text)
             /\ c.args.nights_min = extractNights(ev'.text)
             /\ c.args.nights_max = extractNights(ev'.text)
             /\ c.args.budget_max = extractBudget(ev'.text).max
        /\ Tags(ev'.out) \cap (SlotPrompts \cup GuidedPrompts) = {}
        /\ st'.aiAwaiting = NoStr
        /\ st'.step = "idle"]_vars

\* the message is a bare number: digits with no qualifier
BareNumber(text) == Len(text) = 1 /\ text[1].t = "num"

\* the budget prompt of the slot-filling flow is pending on a draft that has
\* a country and nights
BudgetPromptPending(state) ==
  /\ AiPromptPending(state)
  /\ state.aiAwaiting = "budget"
  /\ state.aiDraft.def
  /\ hasCountry(state.aiDraft) /\ hasNights(state.aiDraft)

\* C20: when the draft has country and nights and the budget prompt is
\* answered with a bare number, the budget of the draft is the approximate
\* band budget_min = round100(value * 0.9), budget_max = round100(value *
\* 1.1), the draft is complete and the search runs with that band.
C20_BareBudgetIsApproximateBand ==
  [][(Update /\ ev'.type = "text" /\ BudgetPromptPending(st)
        /\ BareNumber(ev'.text) /\ ev'.text[1].v >= MinBudgetAnswer)
     => /\ ev'.started = 1
        /\ \E c \in inflight' :
             /\ c.id = ev'.id
             /\ c.draft.budget_min = round100(ev'.text[1].v, 9)
             /\ c.draft.budget_max = round100(ev'.text[1].v, 11)
             /\ c.args.budget_min = round100(ev'.text[1].v, 9)
             /\ c.args.budget_max = round100(ev'.text[1].v, 11)]_vars

\* the budget_max of the specification the update produced: that of the
\* search it started, or that of the draft when a slot is still missing
ResultingBudgetMax ==
  IF ev'.started = 1
  THEN (CHOOSE c \in inflight' : c.id = ev'.id).args.budget_max
  ELSE st'.aiDraft.budget_max

\* C21: when the pending max-or-target clarification for the amount X is
\* answered, the budget_max of the resulting specification is X for a
\* ceiling answer ("до X") and round(X * 1.2) for a target answer
\* ("около X"), X being the amount stated and not an edge of the +/-10% band.
C21_ClarifiedBudgetFromStatedAmount ==
  [][\A x \in {100000} :
       (Update /\ ev'.type = "text"
          /\ st.pendingBudgetClarification.mode # NoStr
          /\ st.pendingBudgetClarification.value = x)
       => /\ ev'.text = UpTo(x) => ResultingBudgetMax = x
          /\ ev'.text = About(x) => ResultingBudgetMax = BudgetTargetMax(x)]_vars

\* two conversations of one user, each searching, cancelling, pinning and
\* saving tours
ChatsVocabulary ==
  Vocabulary("chats", {FullRequest(Turkey), W("cancel")},
             {}, {"want", "fav"}, MaxUpdates)

InitChats == InitWith({ChatsVocabulary})

\* the steps of Next this vocabulary enables: none of its searches is one
\* that is attempted twice
NextChats ==
  \/ \E chat \in Chats, text \in Texts : Text(chat, text)
  \/ \E chat \in Chats : \E btn \in Buttons(chat) : Button(chat, btn)
  \/ \E c \in inflight : SearchReturns(c)
  \/ \E c \in inflight : SearchFails(c)
  \/ \E chat \in Chats, c \in shown : Want(chat, c)
  \/ \E t \in timers : WantTimer(t)
  \/ Tick

SpecChats == InitChats /\ [][NextChats]_vars

\* C22: handling an event of one conversation (a message, a button, a
\* search completion or failure, a reset) leaves the state of every other
\* conversation as it was: mode, draft, last search, results, pinned tour,
\* sequence number and favorites.
C22_OtherConversationsUntouched ==
  [][\A b \in {ChatA, ChatB} :
       ev'.chat # b => getState(b)' = getState(b)]_vars

\* conversation A is reset while conversation B holds results, a sequence
\* number, a pinned tour and a saved tour
C22_ResetBesideBusyConversation ==
  /\ ev.chat = ChatA
  /\ ev.type = "text"
  /\ isCancelText(ev.text)
  /\ ChatB \in DOMAIN stateByChat
  /\ getState(ChatB).lastRequestId # Undef
  /\ getState(ChatB).activeSearchSeq # Undef
  /\ getState(ChatB).pendingHotel # Undef
  /\ getState(ChatB).favorites.tours # <<>>

\* messages on which the classifier is consulted: chatter, a country, a
\* wish to travel, nights and a budget, an unsupported destination
ClassifierVocabulary ==
  Vocabulary("classifier",
             {W("hello"), W("other"), W("travel"), Country(Egypt),
              NightsAndBudget, FullRequest(Turkey) \o W("unsup")},
             {}, {}, MaxUpdates)

InitClassifier == InitWith({ClassifierVocabulary})

\* the steps of Next this vocabulary enables: it has no buttons
NextClassifier ==
  \/ \E chat \in Chats, text \in Texts : Text(chat, text)
  \/ \E c \in inflight : SearchReturns(c)
  \/ \E c \in inflight : SearchFails(c)

SpecClassifier == InitClassifier /\ [][NextClassifier]_vars

\* the message of ev' was handled while the classifier failed
ClassifierFailed == Update /\ ev'.type = "text" /\ ev'.failure # NoStr

\* the outcome of the same message had the classifier answered "unknown"
AsUnknown == OnText(getState(ev'.chat), ev'.text, llmActive, "unknown")

\* C23: a failure of the external classifier (an exception, a timeout, a
\* schema-invalid answer) does not leave message handling: the intent
\* degrades to unknown with a generic reason, the handler still replies,
\* and the conversation goes on as after an unknown intent (after a
\* timeout: in a state from which the next message is answered as well).
C23_ClassifierFailureDegrades ==
  [][ClassifierFailed =>
       /\ ev'.out # <<>> \/ ev'.started = 1
       /\ ev'.failure = "timeout" =>
            /\ handleUserMessage(ev'.text, ev'.failure).intent_type = "unknown"
            /\ handleUserMessage(ev'.text, ev'.failure).reason = "timeout"
       /\ ev'.failure # "timeout" =>
            /\ ClassifiedIntent(ev'.failure).type = "unknown"
            /\ ClassifiedIntent(ev'.failure).reason
                 \in {"provider_error", "invalid_intent"}
            /\ stateByChat'[ev'.chat] = AsUnknown.st
            /\ ev'.out = AsUnknown.out
       /\ \A text \in Texts :
            LET r == OnText(stateByChat'[ev'.chat], text, llmActive, "unknown")
            IN r.out # <<>> \/ r.call.kind # "none"]_vars

\* the classifier threw on a message naming only a country, and the rules
\* opened the slot-filling draft with it
C23_FailureFellBackToRules ==
  /\ ev.type = "text"
  /\ ev.failure = "error"
  /\ ev.text = Country(Egypt)
  /\ llmActive
  /\ st.aiMode
  /\ st.aiDraft.country_id = Egypt

\* the filters of the guided flow and of the executed specification
Filters ==
  {"countryId", "nightsMin", "nightsMax", "budgetMin", "budgetMax",
   "ratingMin", "meal", "period"}

\* C24: cancelling while the bot waits for a phone number returns the user
\* to the controls of the current result list: the results, the request id
\* and the filters of the last search are still there after the cancel, and
\* the reply carries the result controls.
C24_CancelAtPhoneKeepsResults ==
  [][(CancelUpdate /\ AwaitingPhone(st) /\ st.lastRequestId # Undef)
     => /\ st'.lastRequestId = st.lastRequestId
        /\ st'.lastResults = st.lastResults
        /\ SameOn(st', st, Filters)
        /\ "actions" \in Tags(ev'.out)]_vars

(***************************************************************************)
(* The favorites store on its own: saveTour applied to any sequence of     *)
(* tours, a hotel id being given as a number or as text.                   *)
(***************************************************************************)
MaxHotelId == 3
MaxSaves == 4

StoreTours ==
  { [hotel_id |-> HotelId(n, text)] : n \in 1..MaxHotelId, text \in BOOLEAN }

SaveTour(tour) ==
  LET saved == saveTour(store.favorites, tour)
  IN /\ store.saves < MaxSaves
     /\ store' = [favorites |-> saved.favorites, saves |-> store.saves + 1,
                  tour |-> tour, added |-> saved.added]
     /\ UNCHANGED <<bot, mock, cache, poll, norm, parsed>>

\* the bot receives no update
NoVocabulary == Vocabulary("none", {}, {}, {}, 0)

InitStore == InitWith({NoVocabulary}) /\ ~llmActive

NextStore == \E tour \in StoreTours : SaveTour(tour)

SpecStore == InitStore /\ [][NextStore]_vars

\* C25: after any sequence of saveTour calls the saved tours hold no two
\* entries with the same hotel id and stand in the order of their first
\* insertion; saving a tour whose hotel id is already there returns
\* added = false and leaves the store as it was.
C25_SavedToursDistinctInOrder ==
  /\ [](\A i, j \in 1..Len(store.favorites.tours) :
          i # j => Number(store.favorites.tours[i].hotel_id)
                     # Number(store.favorites.tours[j].hotel_id))
  /\ [][LET before == store.favorites.tours
            after == store'.favorites.tours
            present == Number(store'.tour.hotel_id) \in HotelIds(before)
        IN /\ present => ~store'.added /\ store'.favorites = store.favorites
           /\ ~present => store'.added /\ after = Append(before, store'.tour)
       ]_vars

\* a hotel saved under its number is offered again under its text, after
\* another hotel has been saved
C25_DuplicateRefused ==
  /\ Len(store.favorites.tours) >= 2
  /\ ~store.added
  /\ store.tour.hotel_id.text
  /\ ~store.favorites.tours[1].hotel_id.text
  /\ Number(store.favorites.tours[1].hotel_id) = Number(store.tour.hotel_id)

(***************************************************************************)
(* The synthetic backend on its own.                                       *)
(***************************************************************************)
InitMock ==
  /\ InitBot({NoVocabulary})
  /\ ~llmActive
  /\ store = NoSaves
  /\ mock \in { NoCalls(input, poolSize) :
                  input \in MockInputs, poolSize \in {0, 3} }
  /\ norm = Payloaded(<<>>)
  /\ parsed = Unparsed(<<>>)
  /\ cache = NoEntries
  /\ poll = PollStarted

NextMock == MockSearch \/ Midnight

SpecMock == InitMock /\ [][NextMock]_vars

\* the departure dates are counted from the day of the call
RelativeDates(input) == input.period = "next_month"

WithoutDates(out) ==
  [out EXCEPT !.results =
     [k \in 1..Len(out.results) |-> [out.results[k] EXCEPT !.date_from = Undef]]]

Tours(out) ==
  [k \in 1..Len(out.results) |-> [out.results[k] EXCEPT !.image_url = Undef]]

\* the page of the same query at another offset, and the query in one page
PageAt(call, offset, limit) ==
  Tours(mockSearchTours([mock.input EXCEPT !.offset = offset, !.limit = limit],
                        call.day, mock.poolSize))

InDirection(tours, sort) ==
  \A a, b \in 1..Len(tours) :
    a < b => IF sort = "price_desc" THEN tours[a].price >= tours[b].price
             ELSE tours[a].price <= tours[b].price

MealAsked(meal) ==
  IF meal.s # NoStr THEN toUpperCase(meal.s)
  ELSE IF meal.n = 0 THEN NoStr ELSE MEAL_CODES[meal.n]

\* the filters other than the nights, the order and the paging
FiltersOrderAndPaging(call) ==
  LET input == mock.input
      tours == Tours(call.out)
      whole == PageAt(call, 0, 20)
      market == buildTours(input, makeSeedFromInput(input), call.day)
  IN /\ \A k \in 1..Len(tours) :
          /\ input.budget_max > 0 => tours[k].price <= input.budget_max
          /\ input.budget_min > 0 => tours[k].price >= input.budget_min
          /\ input.rating > 0 => tours[k].rating >= input.rating
          /\ MealAsked(input.meal) # NoStr
               => tours[k].meal = MealAsked(input.meal)
     /\ InDirection(tours, input.sort)
     /\ InDirection(whole, input.sort)
     /\ tours = Slice(whole, input.offset, input.offset + input.limit)
     /\ \A k \in 1..Len(market) :
          MatchesFilters(market[k], input) => \E w \in 1..Len(whole) :
                                                 whole[w] = market[k]
     /\ LET other == PageAt(call, IF input.offset = 0 THEN MockLimit ELSE 0,
                            input.limit)
        IN \A a \in 1..Len(tours), b \in 1..Len(other) :
             tours[a].hotel_id # other[b].hotel_id

InitCache == InitWith({NoVocabulary}) /\ ~llmActive

NextCache ==
  \/ \E key \in CacheKeys : CacheGet(key)
  \/ \E key \in CacheKeys, value \in CacheValues : CacheSet(key, value)
  \/ CacheTick

SpecCache == InitCache /\ [][NextCache]_vars

\* the entries of the keys other than key are the same after the step
OtherEntriesKept(key) ==
  \A k \in CacheKeys \ {key} :
    /\ k \in DOMAIN cache'.data <=> k \in DOMAIN cache.data
    /\ k \in DOMAIN cache.data => cache'.data[k] = cache.data[k]

\* C28: a lookup of a key returns the output of the most recent set of that
\* key while no more than the TTL (60 s) has passed since that set; it
\* returns nothing once more than the TTL has passed, and the entry is then
\* removed; a lookup or a set of one key leaves the entries of the other
\* keys, and so the lookups of them, as they were.
C28_LookupReturnsFreshEntryOnly ==
  [][/\ cache'.op.kind = "get" =>
          LET key == cache'.op.key
              fresh == /\ key \in DOMAIN cache.stored
                       /\ DateNow(cache) - cache.stored[key].at <= 60000
          IN /\ fresh => /\ cache'.op.value = cache.stored[key].value
                         /\ key \in DOMAIN cache'.data
             /\ ~fresh => /\ cache'.op.value = Undef
                          /\ key \notin DOMAIN cache'.data
             /\ OtherEntriesKept(key)
     /\ cache'.op.kind = "set" => OtherEntriesKept(cache'.op.key)
    ]_vars

\* a lookup found its entry expired and removed it, while the entry of the
\* other key, set later, is still there
C28_ExpiredEntryRemoved ==
  /\ cache.op.kind = "get"
  /\ cache.op.value = Undef
  /\ cache.op.key \in DOMAIN cache.stored
  /\ cache.op.key \notin DOMAIN cache.data
  /\ \E k \in DOMAIN cache.data : DateNow(cache) <= cache.data[k].expiresAt

\* state.activeSearchSeq ?? 0
SearchSeq(state) ==
  IF state.activeSearchSeq = Undef THEN 0 ELSE state.activeSearchSeq

\* C29: the search sequence number of a conversation never decreases, and
\* no two search executions of the same conversation capture the same
\* number, whatever searches, retries, refinements, new-search commands and
\* resets happen.
C29_SearchSeqNeverReused ==
  /\ [](\A c, d \in inflight :
          c.chat = d.chat /\ c.id # d.id => c.seq # d.seq)
  /\ [][\A chat \in {ChatA, ChatB} :
          SearchSeq(getState(chat))' >= SearchSeq(getState(chat))]_vars

\* the required slots a draft lacks
MissingSlots(draft) ==
  { slot \in {"country", "nights", "budget"} :
      \/ slot = "country" /\ draft.country_id = Undef /\ draft.country_name = NoStr
      \/ slot = "nights" /\ (draft.nights_min = Undef \/ draft.nights_max = Undef)
      \/ slot = "budget" /\ (draft.budget_max = Undef \/ draft.budget_max <= 0) }

FirstMissingSlot(draft) ==
  IF "country" \in MissingSlots(draft) THEN "country"
  ELSE IF "nights" \in MissingSlots(draft) THEN "nights"
  ELSE IF "budget" \in MissingSlots(draft) THEN "budget"
  ELSE NoStr

\* C30: in every reachable state where a conversation is in slot-filling
\* mode and its draft lacks a required slot, the awaited slot is the first
\* missing slot in the order country, nights, budget; the awaited slot never
\* names a slot the draft has, and it is null only when no slot is missing.
C30_AwaitedSlotIsFirstMissing ==
  \A chat \in {ChatA, ChatB} :
    getState(chat).aiMode =>
      /\ MissingSlots(getState(chat).aiDraft) # {}
           => getState(chat).aiAwaiting = FirstMissingSlot(getState(chat).aiDraft)
      /\ getState(chat).aiAwaiting # NoStr
           => getState(chat).aiAwaiting \in MissingSlots(getState(chat).aiDraft)
      /\ getState(chat).aiAwaiting = NoStr
           => MissingSlots(getState(chat).aiDraft) = {}

(***************************************************************************)
(* Refinements of an executed search: after a second page, and through the *)
(* max-or-target question.                                                 *)
(***************************************************************************)
RefineVocabulary ==
  Vocabulary("refine",
             {FullRequest(Turkey), Nights(10), AmbiguousBudget, About(100000)},
             {}, {"more"}, MaxUpdates)

InitRefine == InitWith({RefineVocabulary}) /\ llmActive

\* the steps of Next this vocabulary enables: no tour is chosen
NextRefine ==
  \/ \E chat \in Chats, text \in Texts : Text(chat, text)
  \/ \E chat \in Chats : \E btn \in Buttons(chat) : Button(chat, btn)
  \/ \E c \in inflight : SearchReturns(c)
  \/ \E c \in inflight : SearchFails(c)
  \/ \E c \in inflight : SearchRetries(c)

SpecRefine == InitRefine /\ [][NextRefine]_vars

\* the update is a refinement of the executed specification that went
\* through: the handler confirmed it, or it resolved the max-or-target
\* question asked about a refinement
RefinementApplied ==
  /\ Update /\ ev'.type = "text" /\ ev'.chat = ChatA
  /\ st.lastSearchArgs.def
  /\ \/ ev'.out \in {<<"updating">>, <<"switch_country">>}
     \/ /\ st.pendingBudgetClarification.mode = "followup"
        /\ st'.pendingBudgetClarification.mode = NoStr
        /\ ~isCancelText(ev'.text)

C31_ClarifiedRefinement ==
  /\ ev.type = "text" /\ ev.out = <<"updating">> /\ ev.started = 1
  /\ ev.text = About(100000)
  /\ st.lastSearchArgs.budget_max = BudgetTargetMax(110000)

(***************************************************************************)
(* pollResults on its own.  Every await ends: a fetch returns or throws,   *)
(* a timer fires.                                                          *)
(***************************************************************************)
InitPoll == InitWith({NoVocabulary}) /\ ~llmActive

NextPoll ==
  \/ PollLoop
  \/ \E payload \in Payloads(poll.fetches), ms \in {0, FetchMs, SlowFetchMs} :
       FetchReturns(payload, ms)
  \/ FetchThrows
  \/ \E late \in {0, FetchMs} : TimerFires(late)

SpecPoll == InitPoll /\ [][NextPoll]_vars /\ WF_vars(NextPoll)

\* C32: pollResults terminates when each fetch returns; it returns
\* timedOut = false with the payload of the first poll that reports
\* completion and polls equal to the number of fetches made so far; if no
\* poll reports completion it returns timedOut = true with the last payload;
\* no fetch is started once the ceiling of 20 s has passed since the start.
C32_PollingEndsAtCompletionOrCeiling ==
  /\ <>(poll.pc \in {"returned", "thrown"})
  /\ [](poll.pc = "returned" =>
          IF poll.firstDone # NoPayload
          THEN /\ ~poll.result.timedOut
               /\ poll.result.raw = poll.firstDone
               /\ poll.result.polls = poll.fetches
               /\ poll.firstDone.n = poll.fetches
          ELSE /\ poll.result.timedOut
               /\ poll.result.raw = poll.fetched
               /\ poll.result.polls = poll.fetches)
  /\ [](poll.fetches > 0 => poll.fetchAt - poll.startedAt < 20000)

\* the ceiling passed after several polls, none of which reported completion
C32_TimedOutAfterPolls ==
  /\ poll.pc = "returned"
  /\ poll.result.timedOut
  /\ poll.result.polls > 2
  /\ poll.result.raw = Payload(poll.fetches, "false", "done")

(***************************************************************************)
(* normalize on its own: one payload of up to MaxItems items.              *)
(***************************************************************************)
ItemLists == UNION { [1..n -> Items] : n \in 0..MaxItems }

InitNormalize ==
  /\ InitBot({NoVocabulary})
  /\ ~llmActive
  /\ store = NoSaves
  /\ mock = NoCalls(MockInput(Undef, <<7, 7>>, <<0, 0>>, 0, NoMeal,
                              "price_asc", 0, NoStr), 0)
  /\ cache = NoEntries
  /\ poll = PollStarted
  /\ norm \in { Payloaded(tours) : tours \in ItemLists }
  /\ parsed = Unparsed(<<>>)

SpecNormalize == InitNormalize /\ [][Normalize]_vars

\* the number an item has under the first of the keys it has at all
ReadNumber(item, keys) ==
  IF ~item.object \/ \A k \in 1..Len(keys) : item[keys[k]].kind = "absent"
  THEN 0
  ELSE LET first == CHOOSE k \in 1..Len(keys) :
                      /\ item[keys[k]].kind # "absent"
                      /\ \A j \in 1..(k - 1) : item[keys[j]].kind = "absent"
       IN IF item[keys[first]].kind \in {"number", "string"}
          THEN item[keys[first]].v ELSE 0

Kept(item) ==
  /\ ReadNumber(item, <<"price", "cost">>) > 0
  /\ ReadNumber(item, <<"hotel_id", "hid">>) > 0

\* C33: every item normalize returns has price > 0 and hotel_id > 0, and
\* the output is the items of the input that have a positive price and a
\* positive hotel id (read through the alternate keys), in their order,
\* with none added.
C33_NormalizeKeepsPositiveItems ==
  norm.called =>
    /\ \A k \in 1..Len(norm.out) :
         /\ norm.out[k].price > 0 /\ norm.out[k].hotel_id > 0
         /\ norm.out[k].raw \in 1..Len(norm.tours)
         /\ norm.out[k].price
              = ReadNumber(norm.tours[norm.out[k].raw], <<"price", "cost">>)
         /\ norm.out[k].hotel_id
              = ReadNumber(norm.tours[norm.out[k].raw], <<"hotel_id", "hid">>)
    /\ \A a, b \in 1..Len(norm.out) : a < b => norm.out[a].raw < norm.out[b].raw
    /\ { norm.out[k].raw : k \in 1..Len(norm.out) }
         = { k \in 1..Len(norm.tours) : Kept(norm.tours[k]) }

\* an item was dropped and an item read through its second keys was kept
C33_DroppedAndKept ==
  /\ norm.called
  /\ Len(norm.tours) = 2 /\ Len(norm.out) = 1
  /\ norm.out[1].raw = 2
  /\ norm.tours[1].object
  /\ norm.tours[2].price = Absent /\ norm.tours[2].hotel_id = Absent

BudgetTexts ==
  UNION { { About(n), About(37 * n), W("okolo") \o NumK(n),
            NumK(n), Num(1000 * n + 50), Country(Turkey) \o Num(10 * n),
            UpTo(1000 * n) } : n \in 1..MaxTarget }

InitBudget ==
  /\ InitBot({NoVocabulary})
  /\ ~llmActive
  /\ store = NoSaves
  /\ mock = NoCalls(MockInput(Undef, <<7, 7>>, <<0, 0>>, 0, NoMeal,
                              "price_asc", 0, NoStr), 0)
  /\ cache = NoEntries
  /\ poll = PollStarted
  /\ norm = Payloaded(<<>>)
  /\ parsed \in { Unparsed(text) : text \in BudgetTexts }

SpecBudget == InitBudget /\ [][ExtractBudget]_vars

\* n is a multiple of 100 nearest to tenths / 10
NearestHundred(n, tenths) ==
  /\ n % 100 = 0
  /\ 10 * n - tenths <= 500
  /\ tenths - 10 * n <= 500

\* C34: every approximate budget extracted from a positive target amount
\* has min = round100(target * 0.9), max = round100(target * 1.1) and
\* min <= max, round100 rounding to the nearest multiple of 100.
C34_ApproxBudgetAroundTarget ==
  (parsed.called /\ parsed.budget.type = "approx") =>
    /\ parsed.budget.value > 0
    /\ NearestHundred(parsed.budget.min, 9 * parsed.budget.value)
    /\ NearestHundred(parsed.budget.max, 11 * parsed.budget.value)
    /\ parsed.budget.min <= parsed.budget.max

\* "около 37 тыс" was read as 33 300 .. 40 700
C34_AboutThirtySevenThousand ==
  /\ parsed.called
  /\ parsed.text = W("okolo") \o NumK(37)
  /\ parsed.budget.type = "approx" /\ parsed.budget.value = 37000
  /\ parsed.budget.min = 33300 /\ parsed.budget.max = 40700

\* C35: while a max-or-target question about a budget is pending, a reply
\* that states no amount and no ceiling or target marker (and is no cancel)
\* leaves the question pending, changes no budget and starts no search.
C35_ClarificationWaitsForAmount ==
  [][(/\ Update /\ ev'.type = "text" /\ ev'.chat = ChatA
      /\ st.pendingBudgetClarification.mode # NoStr
      /\ ~isCancelText(ev'.text)
      /\ extractBudget(ev'.text).type = "none"
      /\ ~Has(ev'.text, "okolo") /\ ~ContainsDo(ev'.text)
      /\ ~TargetPhrase(ev'.text))
       => /\ st'.pendingBudgetClarification = st.pendingBudgetClarification
          /\ st'.budgetMax = st.budgetMax
          /\ st'.aiDraft.budget_max = st.aiDraft.budget_max
          /\ st'.lastSearchArgs = st.lastSearchArgs
          /\ ev'.started = 0]_vars

\* C36: once a tour is pinned and the conversation awaits the phone number,
\* the return of a search started earlier does not end await_phone and does
\* not replace the result list the pinned tour was chosen from.
C36_LateResultKeepsAwaitPhone ==
  [][(/\ ev'.type = "result" /\ ev'.chat = ChatA
      /\ st.step = "await_phone" /\ st.pendingHotel # Undef)
       => /\ st'.step = "await_phone"
          /\ st'.pendingHotel = st.pendingHotel
          /\ st'.lastResults = st.lastResults
          /\ st'.lastRequestId = st.lastRequestId]_vars

\* C37: when the backend call of a refinement or of a one-shot free-text
\* search fails right after the message that started it, the last executed
\* search of a conversation that had one (lastSearchArgs, lastResults, lastRequestId,
\* offset) is what it was before that message.
C37_FailedSearchKeepsLastSearch ==
  [][\A c \in inflight :
       (/\ ev'.type = "failure" /\ ev'.id = c.id /\ c.chat = ChatA
        /\ c.kind = "direct" /\ c.before.lastRequestId # Undef
        /\ ev.type = "text" /\ ev.started = 1 /\ ev.id = c.id)
         => LastSearch(st') = c.before]_vars

\* C38: showing the favorites list leaves the last executed search unchanged
\* and, opened in the middle of slot filling or while a phone number is
\* awaited, also leaves the draft, the awaited slot, the pinned tour and the
\* step unchanged.
C38_FavoritesListKeepsConversation ==
  [][(/\ Update /\ ev'.chat = ChatA
      /\ \E i \in DOMAIN ev'.out : ev'.out[i] = "favorite_cards")
       => /\ LastSearch(st') = LastSearch(st)
          /\ st'.aiDraft = st.aiDraft
          /\ st'.aiAwaiting = st.aiAwaiting
          /\ st'.pendingHotel = st.pendingHotel
          /\ st'.step = st.step]_vars

\* the ids of the collections a conversation holds
CollectionIds(state) == { c.id : c \in state.favorites.collections }

\* C39: within a conversation the ids of saved collections are pairwise
\* distinct over its whole lifetime: every id held was issued by the counter,
\* no two collections held share an id, the counter never goes back, and a
\* collection that appears carries an id above every id issued before, also
\* after a collection was deleted, the favorites cleared or the search reset.
C39_CollectionIdsNeverReused ==
  /\ [](\A chat \in Chats :
          /\ \A id \in CollectionIds(getState(chat)) :
               id \in 1..getState(chat).favoritesSeq
          /\ \A c, d \in getState(chat).favorites.collections :
               c.id = d.id => c = d)
  /\ [][\A chat \in Chats :
          /\ getState(chat)'.favoritesSeq >= getState(chat).favoritesSeq
          /\ \A id \in CollectionIds(getState(chat)') :
               \/ \E c \in getState(chat).favorites.collections :
                    /\ c.id = id
                    /\ c \in getState(chat)'.favorites.collections
               \/ id > getState(chat).favoritesSeq]_vars

\* a collection saved after the favorites were emptied: it is the only one
\* held and it carries the second id
C39_SavedAgainAfterRemoval ==
  /\ ev.type = "button" /\ ev.btn.b = "fav:save_collection"
  /\ ev.chat = ChatA
  /\ st.favoritesSeq = 2
  /\ CollectionIds(st) = {2}

====
